---- MODULE Spec2Model ----
(***************************************************************************)
(* Model of the secret dependency planner of genesis-secrets               *)
(* (crates/genesis-secrets/src/plan.rs, parser.rs, generator.rs): a plan   *)
(* is an ordered vector of secret descriptors, a handle to a secret store  *)
(* and a path prefix.  Descriptors are added, sorted by dependencies and   *)
(* then generated / validated / rotated / removed against the store.      *)
(*                                                                         *)
(* Beside it, the manifest cache of genesis-manifest (src/cache.rs,        *)
(* src/types.rs), the caching provider and entomb (src/provider.rs): the   *)
(* cache directory as seen by one caller (SpecCache), one file of it as    *)
(* seen by callers running at the same time (SpecWrite), and entomb        *)
(* against the vault (SpecEntomb).                                         *)
(***************************************************************************)
EXTENDS Integers, Sequences, FiniteSets, TLC

(* ---------------------------------------------------------------------- *)
(* Bounds of the model                                                     *)
(* ---------------------------------------------------------------------- *)
MaxSecrets == 2      \* descriptors in a plan
MaxDefs == 1         \* definitions handed to one parse_all

\* Paths descriptors may have, and one path that no descriptor ever has.
Paths == {"a", "b"}
UnknownPath == "x"
DepNames == Paths \cup {UnknownPath}

\* SecretPlan.base_path
base_path == "base/"

\* format!("{}{}", self.base_path, secret.path())
full_path(p) == base_path \o p

\* Secret::dependencies(): empty, or the one path of the signing CA
DepLists == {<<>>} \cup {<<p>> : p \in DepNames}

\* A descriptor: Secret::path() and Secret::dependencies()
Descriptors == [path : Paths, deps : DepLists]

NoError == [kind |-> "none", path |-> ""]
CircularDependency(p) == [kind |-> "circular", path |-> p]
SecretNotFound(p) == [kind |-> "not_found", path |-> p]
StoreError(p) == [kind |-> "store", path |-> p]
GenerateError(p) == [kind |-> "generate", path |-> p]
ValidateError(p) == [kind |-> "validate", path |-> p]
ParseError == [kind |-> "parse", path |-> ""]

Ok(v) == [kind |-> "ok", err |-> NoError, val |-> v]
Err(e) == [kind |-> "err", err |-> e, val |-> <<>>]
Panic == [kind |-> "panic", err |-> NoError, val |-> <<>>]

VARIABLES
    secrets,    \* SecretPlan.secrets: sequence of descriptors
    store,      \* the secret store: set of full paths that exist
    sortedOk,   \* history: sort_by_dependencies succeeded since the last add_secret
    op,         \* name of the last operation called on the plan
    arg,        \* its input: the vector and the store it ran on, its paths argument
    result,     \* what it returned
    log         \* the store and contract calls it issued, in order

vars == <<secrets, store, sortedOk, op, arg, result, log>>

\* The manifest cache and the caching provider (genesis-manifest cache.rs,
\* provider.rs) live beside the planner and share nothing with it.
VARIABLES
    dir,        \* the cache directory: environment -> the file "{env}.cache.json"
    clock,      \* Utc::now() and the file system's clock
    cache,      \* ManifestCache: max_age and max_entries
    cop,        \* name of the last cache / provider operation
    carg,       \* its input, and the directory it ran on
    cres,       \* what it returned
    clog        \* the calls it made on the inner provider

cacheVars == <<dir, clock, cache, cop, carg, cres, clog>>

\* no cache has been built
NoCache ==
    /\ dir = <<>>
    /\ clock = 0
    /\ cache = <<>>
    /\ cop = "none"
    /\ carg = <<>>
    /\ cres = <<>>
    /\ clog = <<>>

\* Callers of the cache running at the same time on one environment's file.
VARIABLES
    disk,       \* the file "{env}.cache.json": whether it exists, and its bytes
    pc,         \* where each caller is in its put or get
    fd,         \* per writer: the bytes to write, the offset reached, and
                \* whether the file it opened is still the one at the path
    seen,       \* what the reader's last load read
    answer      \* what the reader's last get returned

writeVars == <<disk, pc, fd, seen, answer>>

\* no caller is running
NoCallers ==
    /\ disk = <<>>
    /\ pc = <<>>
    /\ fd = <<>>
    /\ seen = <<>>
    /\ answer = <<>>

\* StandardManifestProvider::entomb and the vault it reads.
VARIABLES
    vault,      \* the secret store: full path -> the keys of the record there
    earg,       \* the input of the last entomb
    eres        \* what it returned

entombVars == <<vault, earg, eres>>

\* entomb has not been called
NoEntomb ==
    /\ vault = <<>>
    /\ earg = <<>>
    /\ eres = <<>>

\* The manifest pipeline (genesis-manifest builder.rs, provider.rs) over the
\* source files of a kit and an environment.
VARIABLES
    sources,    \* the source files that exist
    pop,        \* name of the last pipeline operation
    parg,       \* its input
    pres,       \* what it returned
    plog        \* the provider steps and merge engine runs it made, in order

pipelineVars == <<sources, pop, parg, pres, plog>>

\* no pipeline has run
NoPipeline ==
    /\ sources = {}
    /\ pop = "none"
    /\ parg = <<>>
    /\ pres = <<>>
    /\ plog = <<>>

\* BoshDeployer::deploy (genesis-env deployment.rs) and the environment it
\* deploys.
VARIABLES
    denv,       \* Environment: deployment_count in memory and in the saved env.yml
    darg,       \* the input of the last deploy
    dres,       \* what it returned
    dlog        \* the calls it made, in order

deployVars == <<denv, darg, dres, dlog>>

\* no deploy has run
NoDeploy ==
    /\ denv = <<>>
    /\ darg = <<>>
    /\ dres = <<>>
    /\ dlog = <<>>

\* ManifestTransformer (genesis-manifest transform.rs) applied to a document.
VARIABLES
    targ,       \* the document, paths and value a transformer call was given
    tres        \* what it returned

xformVars == <<targ, tres>>

\* no transformer call has been made
NoTransform ==
    /\ targ = <<>>
    /\ tres = <<>>

laterVars == <<pipelineVars, deployVars, xformVars>>

NoLater == NoPipeline /\ NoDeploy /\ NoTransform

(* ---------------------------------------------------------------------- *)
(* sort_by_dependencies                                                    *)
(* ---------------------------------------------------------------------- *)

\* secrets.iter().position(|s| s.path() == secret_path); 0 when there is none
position(secs, p) ==
    IF \E i \in 1..Len(secs) : secs[i].path = p
    THEN CHOOSE i \in 1..Len(secs) :
            /\ secs[i].path = p
            /\ \A j \in 1..(i - 1) : secs[j].path # p
    ELSE 0

RECURSIVE visit(_, _, _)
RECURSIVE visit_deps(_, _, _, _)

\* for dep in &secrets[idx].dependencies() { visit(dep, ...)?; }
visit_deps(deps, k, secs, st) ==
    IF k > Len(deps) \/ st.err # NoError
    THEN st
    ELSE visit_deps(deps, k + 1, secs, visit(deps[k], secs, st))

\* visit without the `visiting` check: a path met again while it is being
\* visited is taken as done.
visit_no_cycle_check(secret_path, secs, st) ==
    IF secret_path \in st.visited \cup st.visiting THEN st
    ELSE LET st1 == [st EXCEPT !.visiting = @ \cup {secret_path}]
             idx == position(secs, secret_path)
         IN  IF idx = 0
             THEN [st1 EXCEPT !.err = SecretNotFound(secret_path)]
             ELSE LET st2 == visit_deps(secs[idx].deps, 1, secs, st1)
                  IN  IF st2.err # NoError
                      THEN st2
                      ELSE [st2 EXCEPT !.visiting = @ \ {secret_path},
                                       !.visited = @ \cup {secret_path},
                                       !.sorted = Append(@, idx)]

\* visit that passes over a path no descriptor has instead of failing
visit_skip_unknown(secret_path, secs, st) ==
    IF secret_path \in st.visited THEN st
    ELSE IF secret_path \in st.visiting
    THEN [st EXCEPT !.err = CircularDependency(secret_path)]
    ELSE LET st1 == [st EXCEPT !.visiting = @ \cup {secret_path}]
             idx == position(secs, secret_path)
         IN  IF idx = 0
             THEN st
             ELSE LET st2 == visit_deps(secs[idx].deps, 1, secs, st1)
                  IN  IF st2.err # NoError
                      THEN st2
                      ELSE [st2 EXCEPT !.visiting = @ \ {secret_path},
                                       !.visited = @ \cup {secret_path},
                                       !.sorted = Append(@, idx)]

\* fn visit(secret_path, secrets, visited, visiting, sorted) -> Result<()>
\* st = [visited, visiting, sorted, err]; err # NoError is the Err return.
visit(secret_path, secs, st) ==
    IF secret_path \in st.visited THEN st
    ELSE IF secret_path \in st.visiting
    THEN [st EXCEPT !.err = CircularDependency(secret_path)]
    ELSE LET st1 == [st EXCEPT !.visiting = @ \cup {secret_path}]
             idx == position(secs, secret_path)
         IN  IF idx = 0
             THEN [st1 EXCEPT !.err = SecretNotFound(secret_path)]
             ELSE LET st2 == visit_deps(secs[idx].deps, 1, secs, st1)
                  IN  IF st2.err # NoError
                      THEN st2
                      ELSE [st2 EXCEPT !.visiting = @ \ {secret_path},
                                       !.visited = @ \cup {secret_path},
                                       !.sorted = Append(@, idx)]

RECURSIVE visit_all(_, _, _)
\* for i in 0..self.secrets.len() { visit(&path, ...)?; }
visit_all(i, secs, st) ==
    IF i > Len(secs) \/ st.err # NoError
    THEN st
    ELSE visit_all(i + 1, secs, visit(secs[i].path, secs, st))

\* Vec::swap_remove(idx) on a vector with idx in range: the element at idx is
\* replaced by the last element and the vector shrinks by one.
swap_remove(vec, idx) ==
    [i \in 1..(Len(vec) - 1) |-> IF i = idx THEN vec[Len(vec)] ELSE vec[i]]

RECURSIVE drain(_, _, _, _)
\* for idx in sorted { new_secrets.push(self.secrets.swap_remove(idx)); }
\* swap_remove panics when idx is out of bounds.
drain(sorted, k, vec, new_secrets) ==
    IF k > Len(sorted)
    THEN [panic |-> FALSE, vec |-> vec, new_secrets |-> new_secrets]
    ELSE IF sorted[k] > Len(vec)
    THEN [panic |-> TRUE, vec |-> vec, new_secrets |-> new_secrets]
    ELSE drain(sorted, k + 1, swap_remove(vec, sorted[k]),
               Append(new_secrets, vec[sorted[k]]))


\* What an operation leaves behind: the plan's vector, the store, the value
\* returned and the calls issued.
Outcome(secs, st, res, lg) ==
    [secrets |-> secs, store |-> st, result |-> res, log |-> lg]

\* a sort that writes each secret to the store as soon as it is ordered
sort_generating(secs, st) ==
    LET v == visit_all(1, secs,
                 [visited |-> {}, visiting |-> {}, sorted |-> <<>>, err |-> NoError])
        written == [k \in 1..Len(v.sorted) |->
                       [call |-> "write", idx |-> v.sorted[k],
                        path |-> base_path \o secs[v.sorted[k]].path, res |-> "ok"]]
        st1 == st \cup {base_path \o secs[v.sorted[k]].path : k \in 1..Len(v.sorted)}
    IN  IF v.err # NoError
        THEN Outcome(secs, st1, Err(v.err), written)
        ELSE LET d == drain(v.sorted, 1, secs, <<>>)
             IN  IF d.panic
                 THEN Outcome(d.vec, st1, Panic, written)
                 ELSE Outcome(d.new_secrets, st1, Ok(<<>>), written)

\* SecretPlan::sort_by_dependencies(&mut self) -> Result<()>
sort_by_dependencies(secs, st) ==
    LET v == visit_all(1, secs,
                 [visited |-> {}, visiting |-> {}, sorted |-> <<>>, err |-> NoError])
    IN  IF v.err # NoError
        THEN Outcome(secs, st, Err(v.err), <<>>)
        ELSE LET d == drain(v.sorted, 1, secs, <<>>)
             IN  IF d.panic
                 THEN Outcome(d.vec, st, Panic, <<>>)
                 ELSE Outcome(d.new_secrets, st, Ok(<<>>), <<>>)

(* ---------------------------------------------------------------------- *)
(* SecretParser::parse_all                                                 *)
(* ---------------------------------------------------------------------- *)

\* One entry of a kit's secrets map or of a manifest's variables array: a
\* definition create_secret accepts, one the parser rejects (missing or
\* unknown type, missing name), or one it passes over (not an object, or a
\* variable type the planner does not handle).
BadDef == [kind |-> "bad", path |-> "", deps |-> <<>>]
SkipDef == [kind |-> "skip", path |-> "", deps |-> <<>>]
SecretDef(d) == [kind |-> "secret", path |-> d.path, deps |-> d.deps]
Defs == {SecretDef(d) : d \in Descriptors} \cup {BadDef, SkipDef}
\* the kit's definitions and the manifest's, as handed to parse_all
ParseInputs ==
    UNION {[1..i -> Defs] \X [1..j -> Defs] :
              <<i, j>> \in {ij \in (0..MaxDefs) \X (0..MaxDefs) : ij[1] + ij[2] <= MaxDefs}}

\* SecretPlan::add_secret: self.secrets.push(secret)
add_secret(secs, d) == Append(secs, d)

RECURSIVE parse(_, _, _)
\* FromKit::parse / FromManifest::parse: add each accepted definition in
\* turn, return at the first rejected one.
parse(defs, k, secs) ==
    IF k > Len(defs)
    THEN [secrets |-> secs, err |-> NoError]
    ELSE IF defs[k].kind = "bad"
    THEN [secrets |-> secs, err |-> ParseError]
    ELSE IF defs[k].kind = "skip"
    THEN parse(defs, k + 1, secs)
    ELSE parse(defs, k + 1,
               add_secret(secs, [path |-> defs[k].path, deps |-> defs[k].deps]))

\* SecretParser::parse_all(kit_secrets, manifest, plan) -> Result<()>
parse_all(kit_secrets, manifest, secs, st) ==
    LET k == parse(kit_secrets, 1, secs)
    IN  IF k.err # NoError
        THEN Outcome(k.secrets, st, Err(k.err), <<>>)
        ELSE LET m == parse(manifest, 1, k.secrets)
             IN  IF m.err # NoError
                 THEN Outcome(m.secrets, st, Err(m.err), <<>>)
                 ELSE sort_by_dependencies(m.secrets, st)

(* ---------------------------------------------------------------------- *)
(* Execution against the store                                             *)
(* ---------------------------------------------------------------------- *)

\* One call issued by an operation: a store call (exists, read, write,
\* delete) on a full path or a contract call (generate, validate_value) of
\* the descriptor at index idx.
Call(c, i, p, r) == [call |-> c, idx |-> i, path |-> p, res |-> r]

\* Where a call of the store or of a contract fails during one operation:
\* at descriptor `at` (0: nowhere) in stage `stage`.
NoFault == [at |-> 0, stage |-> "none"]
Faults(n, stages) == {NoFault} \cup [at : 1..n, stage : stages]

\* HashMap::insert
MapInsert(m, k, v) == [x \in (DOMAIN m) \cup {k} |-> IF x = k THEN v ELSE m[x]]
EmptyMap == [x \in {} |-> TRUE]

RECURSIVE generate_missing_from(_, _, _, _, _, _)
\* the loop going on to the next descriptor after a write that failed
generate_missing_ignoring_write_error(i, secs, st, generated, lg, f) ==
    IF i > Len(secs)
    THEN Outcome(secs, st, Ok(generated), lg)
    ELSE LET p == secs[i].path
             fp == full_path(p)
         IN  IF f.at = i /\ f.stage = "exists"
             THEN Outcome(secs, st, Err(StoreError(fp)),
                          Append(lg, Call("exists", i, fp, "err")))
             ELSE IF fp \in st
             THEN generate_missing_from(i + 1, secs, st, generated,
                          Append(lg, Call("exists", i, fp, "true")), f)
             ELSE LET lg1 == Append(lg, Call("exists", i, fp, "false"))
                  IN  IF f.at = i /\ f.stage = "generate"
                      THEN Outcome(secs, st, Err(GenerateError(p)),
                                   Append(lg1, Call("generate", i, p, "err")))
                      ELSE LET lg2 == Append(lg1, Call("generate", i, p, "ok"))
                           IN  IF f.at = i /\ f.stage = "write"
                               THEN generate_missing_from(i + 1, secs, st, generated,
                                        Append(lg2, Call("write", i, fp, "err")), f)
                               ELSE generate_missing_from(i + 1, secs,
                                        st \cup {fp}, Append(generated, p),
                                        Append(lg2, Call("write", i, fp, "ok")), f)

\* the loop generating a secret whether the store has it or not
generate_missing_regenerating(i, secs, st, generated, lg, f) ==
    IF i > Len(secs)
    THEN Outcome(secs, st, Ok(generated), lg)
    ELSE LET p == secs[i].path
             fp == full_path(p)
         IN  IF f.at = i /\ f.stage = "exists"
             THEN Outcome(secs, st, Err(StoreError(fp)),
                          Append(lg, Call("exists", i, fp, "err")))
             ELSE LET lg1 == Append(lg, Call("exists", i, fp,
                                             IF fp \in st THEN "true" ELSE "false"))
                  IN  IF f.at = i /\ f.stage = "generate"
                      THEN Outcome(secs, st, Err(GenerateError(p)),
                                   Append(lg1, Call("generate", i, p, "err")))
                      ELSE LET lg2 == Append(lg1, Call("generate", i, p, "ok"))
                           IN  IF f.at = i /\ f.stage = "write"
                               THEN Outcome(secs, st, Err(StoreError(fp)),
                                        Append(lg2, Call("write", i, fp, "err")))
                               ELSE generate_missing_from(i + 1, secs,
                                        st \cup {fp}, Append(generated, p),
                                        Append(lg2, Call("write", i, fp, "ok")), f)

\* the loop of generate_missing from descriptor i on
generate_missing_from(i, secs, st, generated, lg, f) ==
    IF i > Len(secs)
    THEN Outcome(secs, st, Ok(generated), lg)
    ELSE LET p == secs[i].path
             fp == full_path(p)
         IN  IF f.at = i /\ f.stage = "exists"
             THEN Outcome(secs, st, Err(StoreError(fp)),
                          Append(lg, Call("exists", i, fp, "err")))
             ELSE IF fp \in st
             THEN generate_missing_from(i + 1, secs, st, generated,
                          Append(lg, Call("exists", i, fp, "true")), f)
             ELSE LET lg1 == Append(lg, Call("exists", i, fp, "false"))
                  IN  IF f.at = i /\ f.stage = "generate"
                      THEN Outcome(secs, st, Err(GenerateError(p)),
                                   Append(lg1, Call("generate", i, p, "err")))
                      ELSE LET lg2 == Append(lg1, Call("generate", i, p, "ok"))
                           IN  IF f.at = i /\ f.stage = "write"
                               THEN Outcome(secs, st, Err(StoreError(fp)),
                                        Append(lg2, Call("write", i, fp, "err")))
                               ELSE generate_missing_from(i + 1, secs,
                                        st \cup {fp}, Append(generated, p),
                                        Append(lg2, Call("write", i, fp, "ok")), f)

\* SecretPlan::generate_missing(&self) -> Result<Vec<String>>
generate_missing(secs, st, f) ==
    generate_missing_from(1, secs, st, <<>>, <<>>, f)

\* SecretGenerator::generate_all(plan)
generate_all(secs, st, f) == generate_missing(secs, st, f)

RECURSIVE rotate_from(_, _, _, _, _, _, _)
rotate_from(i, secs, st, paths, rotated, lg, f) ==
    IF i > Len(secs)
    THEN Outcome(secs, st, Ok(rotated), lg)
    ELSE LET p == secs[i].path
             fp == full_path(p)
         IN  IF p \notin paths
             THEN rotate_from(i + 1, secs, st, paths, rotated, lg, f)
             ELSE IF f.at = i /\ f.stage = "generate"
             THEN Outcome(secs, st, Err(GenerateError(p)),
                          Append(lg, Call("generate", i, p, "err")))
             ELSE LET lg1 == Append(lg, Call("generate", i, p, "ok"))
                  IN  IF f.at = i /\ f.stage = "write"
                      THEN Outcome(secs, st, Err(StoreError(fp)),
                                   Append(lg1, Call("write", i, fp, "err")))
                      ELSE rotate_from(i + 1, secs, st \cup {fp}, paths,
                                   Append(rotated, p),
                                   Append(lg1, Call("write", i, fp, "ok")), f)

\* SecretPlan::rotate(&self, paths) -> Result<Vec<String>>
rotate(secs, st, paths, f) == rotate_from(1, secs, st, paths, <<>>, <<>>, f)

\* SecretGenerator::generate_paths(plan, paths)
generate_paths(secs, st, paths, f) == rotate(secs, st, paths, f)

RECURSIVE remove_from(_, _, _, _, _, _, _)
remove_from(i, secs, st, paths, removed, lg, f) ==
    IF i > Len(secs)
    THEN Outcome(secs, st, Ok(removed), lg)
    ELSE LET p == secs[i].path
             fp == full_path(p)
         IN  IF p \notin paths
             THEN remove_from(i + 1, secs, st, paths, removed, lg, f)
             ELSE IF f.at = i /\ f.stage = "delete"
             THEN Outcome(secs, st, Err(StoreError(fp)),
                          Append(lg, Call("delete", i, fp, "err")))
             ELSE remove_from(i + 1, secs, st \ {fp}, paths,
                          Append(removed, p),
                          Append(lg, Call("delete", i, fp, "ok")), f)

\* SecretPlan::remove(&self, paths) -> Result<Vec<String>>
remove(secs, st, paths, f) == remove_from(1, secs, st, paths, <<>>, <<>>, f)

RECURSIVE check_from(_, _, _, _, _, _)
check_from(i, secs, st, results, lg, f) ==
    IF i > Len(secs)
    THEN Outcome(secs, st, Ok(results), lg)
    ELSE LET p == secs[i].path
             fp == full_path(p)
         IN  IF f.at = i /\ f.stage = "exists"
             THEN Outcome(secs, st, Err(StoreError(fp)),
                          Append(lg, Call("exists", i, fp, "err")))
             ELSE check_from(i + 1, secs, st, MapInsert(results, p, fp \in st),
                          Append(lg, Call("exists", i, fp,
                                          IF fp \in st THEN "true" ELSE "false")), f)

\* SecretPlan::check(&self) -> Result<HashMap<String, bool>>
check(secs, st, f) == check_from(1, secs, st, EmptyMap, <<>>, f)

\* What validate_value returns for the descriptor the fault names; every
\* other stored value validates as Ok.
ValidateStages ==
    {"read", "validate_warning", "validate_error", "validate_missing", "validate_err"}

validate_value(i, f) ==
    IF f.at # i THEN "Ok"
    ELSE IF f.stage = "validate_warning" THEN "Warning"
    ELSE IF f.stage = "validate_error" THEN "Error"
    ELSE IF f.stage = "validate_missing" THEN "Missing"
    ELSE IF f.stage = "validate_err" THEN "Err"
    ELSE "Ok"

RECURSIVE validate_from(_, _, _, _, _, _)
validate_from(i, secs, st, results, lg, f) ==
    IF i > Len(secs)
    THEN Outcome(secs, st, Ok(results), lg)
    ELSE LET p == secs[i].path
             fp == full_path(p)
         IN  IF (f.at = i /\ f.stage = "read") \/ fp \notin st
             THEN \* Err(_) => ValidationResult::Missing
                  validate_from(i + 1, secs, st, MapInsert(results, p, "Missing"),
                          Append(lg, Call("read", i, fp, "err")), f)
             ELSE LET lg1 == Append(lg, Call("read", i, fp, "ok"))
                      v == validate_value(i, f)
                  IN  IF v = "Err"
                      THEN Outcome(secs, st, Err(ValidateError(p)),
                                   Append(lg1, Call("validate_value", i, p, "err")))
                      ELSE validate_from(i + 1, secs, st, MapInsert(results, p, v),
                                   Append(lg1, Call("validate_value", i, p, v)), f)

\* SecretPlan::validate(&self) -> Result<HashMap<String, ValidationResult>>
validate(secs, st, f) == validate_from(1, secs, st, EmptyMap, <<>>, f)

(* ---------------------------------------------------------------------- *)
(* The plan as a state machine                                             *)
(* ---------------------------------------------------------------------- *)

\* SecretPlan::new: an empty vector and a handle to a store that holds
\* whatever earlier deployments left in it.
Init ==
    /\ secrets = <<>>
    /\ store \in SUBSET {full_path(p) : p \in Paths}
    /\ sortedOk = FALSE
    /\ op = "new"
    /\ arg = [secrets |-> <<>>, paths |-> {}, store |-> store]
    /\ result = Ok(<<>>)
    /\ log = <<>>
    /\ NoCache
    /\ NoCallers
    /\ NoEntomb
    /\ NoLater

ExecOps == {"generate_missing", "rotate", "remove", "check", "validate"}

\* A plan is created for one deploy / rotate / check command: it is
\* populated, sorted, executed once against the store and dropped.  A panic
\* unwinds out of the command.
Alive == result.kind # "panic" /\ op \notin ExecOps

\* the input of an operation: the plan's vector (for parse_all, once the
\* definitions are added), the paths argument and the store before the call
Input(secs, paths) == [secrets |-> secs, paths |-> paths, store |-> store]

Apply(name, a, o) ==
    /\ secrets' = o.secrets
    /\ store' = o.store
    /\ op' = name
    /\ arg' = a
    /\ result' = o.result
    /\ log' = o.log
    /\ UNCHANGED <<cacheVars, writeVars, entombVars, laterVars>>

\* SecretPlan::new for the next command, on the store as it now is
NewPlan ==
    /\ ~Alive
    /\ Apply("new", Input(<<>>, {}), Outcome(<<>>, store, Ok(<<>>), <<>>))
    /\ sortedOk' = FALSE

AddSecret ==
    /\ Alive
    /\ Len(secrets) < MaxSecrets
    /\ \E d \in Descriptors :
          Apply("add_secret", Input(secrets, {}), Outcome(add_secret(secrets, d), store, Ok(<<>>), <<>>))
    /\ sortedOk' = FALSE

SortByDependencies ==
    /\ Alive
    /\ LET o == sort_by_dependencies(secrets, store)
       IN  /\ Apply("sort_by_dependencies", Input(secrets, {}), o)
           /\ sortedOk' = IF o.result.kind = "ok" THEN TRUE
                          ELSE IF o.result.kind = "panic" THEN FALSE
                          ELSE sortedOk

\* the vector parse_all hands to the sort, or holds when it returns early
Parsed(kit_secrets, manifest, secs) ==
    LET k == parse(kit_secrets, 1, secs)
    IN  IF k.err # NoError THEN k.secrets ELSE parse(manifest, 1, k.secrets).secrets

ParseAll ==
    /\ Alive
    /\ \E km \in ParseInputs :
          LET kit_secrets == km[1]
              manifest == km[2]
              added == Parsed(kit_secrets, manifest, secrets)
              o == parse_all(kit_secrets, manifest, secrets, store)
          IN  /\ Len(added) <= MaxSecrets
              /\ Apply("parse_all", Input(added, {}), o)
              /\ sortedOk' = IF o.result.kind = "ok" THEN TRUE
                             ELSE IF Len(added) > Len(secrets) THEN FALSE
                             ELSE IF o.result.kind = "panic" THEN FALSE
                             ELSE sortedOk

GenerateMissing ==
    /\ Alive
    /\ \E f \in Faults(Len(secrets), {"exists", "generate", "write"}) :
          Apply("generate_missing", Input(secrets, {}), generate_all(secrets, store, f))
    /\ UNCHANGED sortedOk

Rotate ==
    /\ Alive
    /\ \E paths \in SUBSET DepNames :
       \E f \in Faults(Len(secrets), {"generate", "write"}) :
          Apply("rotate", Input(secrets, paths), generate_paths(secrets, store, paths, f))
    /\ UNCHANGED sortedOk

Remove ==
    /\ Alive
    /\ \E paths \in SUBSET DepNames :
       \E f \in Faults(Len(secrets), {"delete"}) :
          Apply("remove", Input(secrets, paths), remove(secrets, store, paths, f))
    /\ UNCHANGED sortedOk

Check ==
    /\ Alive
    /\ \E f \in Faults(Len(secrets), {"exists"}) :
          Apply("check", Input(secrets, {}), check(secrets, store, f))
    /\ UNCHANGED sortedOk

Validate ==
    /\ Alive
    /\ \E f \in Faults(Len(secrets), ValidateStages) :
          Apply("validate", Input(secrets, {}), validate(secrets, store, f))
    /\ UNCHANGED sortedOk

Next ==
    \/ NewPlan
    \/ AddSecret
    \/ SortByDependencies
    \/ ParseAll
    \/ GenerateMissing
    \/ Rotate
    \/ Remove
    \/ Check
    \/ Validate

Spec == Init /\ [][Next]_vars


(* ---------------------------------------------------------------------- *)
(* Vocabulary of the properties                                            *)
(* ---------------------------------------------------------------------- *)

Range(f) == {f[x] : x \in DOMAIN f}
PathsOf(secs) == {secs[i].path : i \in 1..Len(secs)}

\* the descriptors have pairwise distinct paths
DistinctPaths(secs) ==
    \A i, j \in 1..Len(secs) : secs[i].path = secs[j].path => i = j

\* every declared dependency names a descriptor of the plan
DepsKnown(secs) ==
    \A i \in 1..Len(secs) : Range(secs[i].deps) \subseteq PathsOf(secs)

\* descriptor i declares the path of descriptor j as a dependency
DependsOn(secs, i, j) == secs[j].path \in Range(secs[i].deps)

RECURSIVE Closure(_, _, _)
\* the descriptors reached from the set S in at most n more steps
Closure(secs, S, n) ==
    IF n = 0 THEN S
    ELSE Closure(secs,
                 S \cup {j \in 1..Len(secs) : \E k \in S : DependsOn(secs, k, j)},
                 n - 1)

\* the descriptors i depends on, directly or through others
Reaches(secs, i) ==
    Closure(secs, {j \in 1..Len(secs) : DependsOn(secs, i, j)}, Len(secs))

OnCycle(secs, i) == i \in Reaches(secs, i)
Cyclic(secs) == \E i \in 1..Len(secs) : OnCycle(secs, i)

\* in the order of secs every descriptor comes after those it depends on
DependenciesFirst(secs) ==
    \A i, j \in 1..Len(secs) : DependsOn(secs, i, j) => j < i

\* t holds the descriptors of s, each once, in some order
IsPermutation(s, t) ==
    /\ Len(s) = Len(t)
    /\ \E f \in [1..Len(s) -> 1..Len(s)] :
          /\ \A i, j \in 1..Len(s) : f[i] = f[j] => i = j
          /\ \A i \in 1..Len(s) : t[i] = s[f[i]]

SortOps == {"sort_by_dependencies", "parse_all"}
\* the last call ran the sort (parse_all returns before it on a rejected definition)
Sorting == op \in SortOps /\ ~(result.kind = "err" /\ result.err.kind = "parse")

Failed(k) == log[k].res = "err"

(* ---------------------------------------------------------------------- *)
(* C1                                                                      *)
(* ---------------------------------------------------------------------- *)

\* C1: for every plan with pairwise distinct paths, only known dependencies
\* and an acyclic dependency relation, in whatever order its descriptors were
\* added, sort_by_dependencies returns success and leaves the descriptors in
\* an order where each comes after every descriptor it depends on.
C1_SortSucceedsInDependencyOrder ==
    (/\ op = "sort_by_dependencies"
     /\ DistinctPaths(arg.secrets)
     /\ DepsKnown(arg.secrets)
     /\ ~Cyclic(arg.secrets))
    => /\ result.kind = "ok"
       /\ IsPermutation(arg.secrets, secrets)
       /\ DependenciesFirst(secrets)


(* ---------------------------------------------------------------------- *)
(* C2                                                                      *)
(* ---------------------------------------------------------------------- *)

\* the error is the circular-dependency error and names a path on a cycle
CircularOnCycle ==
    /\ result.kind = "err"
    /\ result.err.kind = "circular"
    /\ \E i \in 1..Len(arg.secrets) :
          /\ OnCycle(arg.secrets, i)
          /\ arg.secrets[i].path = result.err.path

\* C2 as claimed, taken on plans of pairwise distinct paths: for every plan
\* whose dependency relation contains a cycle, sort_by_dependencies returns
\* the circular-dependency error naming a path on the cycle, and never
\* success.
C2_CycleGivesCircularError ==
    (op = "sort_by_dependencies" /\ DistinctPaths(arg.secrets) /\ Cyclic(arg.secrets))
    => CircularOnCycle

\* C2 as amended: for every plan with pairwise distinct paths whose
\* dependency relation contains a cycle, sort_by_dependencies terminates
\* with an error and leaves the plan as it was, never success and never a
\* panic; the error is the circular-dependency error naming a path on the
\* cycle whenever every declared dependency names a descriptor of the plan,
\* and otherwise that error or the unknown-dependency error, whichever the
\* traversal meets first.
C2_DistinctCycleNeverSucceeds ==
    (Sorting /\ DistinctPaths(arg.secrets) /\ Cyclic(arg.secrets))
    => /\ result.kind = "err"
       /\ result.err.kind \in {"circular", "not_found"}
       /\ secrets = arg.secrets
       /\ ~sortedOk
       /\ result.err.kind = "circular" => CircularOnCycle
       /\ DepsKnown(arg.secrets) => CircularOnCycle

\* a cycle through two descriptors has been reported
C2_Witness ==
    /\ op = "sort_by_dependencies"
    /\ DistinctPaths(arg.secrets)
    /\ DepsKnown(arg.secrets)
    /\ \E i, j \in 1..Len(arg.secrets) :
          i # j /\ DependsOn(arg.secrets, i, j) /\ DependsOn(arg.secrets, j, i)
    /\ CircularOnCycle

(* ---------------------------------------------------------------------- *)
(* C3                                                                      *)
(* ---------------------------------------------------------------------- *)

SortFailed ==
    /\ op \in SortOps
    /\ result.kind = "err"
    /\ result.err.kind \in {"circular", "not_found"}

\* C3: when sort_by_dependencies, called directly or through parse_all,
\* fails on a cycle or an unknown dependency, the plan has issued no call to
\* the store when the error is returned: the store is as it was and nothing
\* has been generated.
C3_FailedSortTouchesNoStore ==
    SortFailed => /\ log = <<>>
                  /\ store = arg.store
                  /\ secrets = arg.secrets

\* parse_all has failed in the sort, on a plan part of which could be ordered
C3_Witness ==
    /\ op = "parse_all"
    /\ SortFailed
    /\ Len(arg.secrets) >= 2
    /\ \E i \in 1..Len(arg.secrets) : arg.secrets[i].deps = <<>>
    /\ log = <<>>

(* ---------------------------------------------------------------------- *)
(* C4                                                                      *)
(* ---------------------------------------------------------------------- *)

\* before call k of the log, the store reported the full path fp as existing
\* or accepted a write to it
ExistsBefore(k, fp) ==
    \E j \in 1..(k - 1) :
        /\ log[j].path = fp
        /\ \/ log[j].call = "exists" /\ log[j].res = "true"
           \/ log[j].call = "write" /\ log[j].res = "ok"

\* C4: during generate_missing on a successfully sorted plan the descriptors
\* are handled one after the other in plan order, and when a descriptor's
\* generate contract is invoked the prefixed path of every descriptor it
\* depends on exists in the store: it was there beforehand or was written
\* earlier in the same call.
C4_DependenciesExistAtGenerate ==
    (op = "generate_missing" /\ sortedOk)
    => /\ \A j, k \in 1..Len(log) : j < k => log[j].idx <= log[k].idx
       /\ \A k \in 1..Len(log) :
             log[k].call = "generate"
             => \A d \in Range(secrets[log[k].idx].deps) :
                   ExistsBefore(k, full_path(d))

\* a dependent secret has been generated right after the one it depends on
C4_Witness ==
    /\ op = "generate_missing"
    /\ sortedOk
    /\ result.kind = "ok"
    /\ arg.store = {}
    /\ \E k \in 1..Len(log) :
          /\ log[k].call = "generate"
          /\ secrets[log[k].idx].deps # <<>>

(* ---------------------------------------------------------------------- *)
(* C5                                                                      *)
(* ---------------------------------------------------------------------- *)

RECURSIVE SelectPaths(_, _, _)
\* the paths of the descriptors of secs whose index is in keep, in plan order
SelectPaths(secs, i, keep) ==
    IF i > Len(secs) THEN <<>>
    ELSE (IF i \in keep THEN <<secs[i].path>> ELSE <<>>)
         \o SelectPaths(secs, i + 1, keep)

\* the descriptors missing from the store st when their turn comes: not in
\* st, and not generated for an earlier descriptor of the same path
MissingFrom(secs, st) ==
    {i \in 1..Len(secs) :
        /\ full_path(secs[i].path) \notin st
        /\ \A j \in 1..(i - 1) : secs[j].path # secs[i].path}

\* C5: generate_missing never calls generate or write for a descriptor whose
\* prefixed path the store reported as existing; when it returns success the
\* returned list is the missing descriptors in plan order and every
\* descriptor of the plan exists in the store; against an empty store all
\* descriptors are generated, in plan order.
C5_GeneratesExactlyTheMissing ==
    op = "generate_missing"
    => /\ \A k \in 1..Len(log) :
             log[k].call \in {"generate", "write"}
             => /\ full_path(secrets[log[k].idx].path) \notin arg.store
                /\ \E j \in 1..(k - 1) : /\ log[j].call = "exists"
                                         /\ log[j].idx = log[k].idx
                                         /\ log[j].res = "false"
       /\ result.kind = "ok"
          => /\ result.val = SelectPaths(secrets, 1, MissingFrom(secrets, arg.store))
             /\ \A i \in 1..Len(secrets) : full_path(secrets[i].path) \in store
             /\ store = arg.store \cup {full_path(p) : p \in PathsOf(secrets)}
             /\ (arg.store = {} /\ DistinctPaths(secrets))
                => result.val = [i \in 1..Len(secrets) |-> secrets[i].path]

\* one descriptor was skipped because the store had it, another generated
C5_Witness ==
    /\ op = "generate_missing"
    /\ result.kind = "ok"
    /\ Len(result.val) = 1
    /\ Len(secrets) = 2
    /\ DistinctPaths(secrets)
    /\ \E k \in 1..Len(log) : log[k].call = "exists" /\ log[k].res = "true"

(* ---------------------------------------------------------------------- *)
(* C6                                                                      *)
(* ---------------------------------------------------------------------- *)

\* C6: generate_missing, rotate, remove, validate and check fail at once,
\* with no store call, when invoked on a plan for which sort_by_dependencies
\* has not succeeded since the last add_secret.
C6_UnsortedPlanFailsFast ==
    (op \in ExecOps /\ Len(secrets) > 0 /\ ~sortedOk)
    => /\ result.kind = "err"
       /\ log = <<>>

(* ---------------------------------------------------------------------- *)
(* C7                                                                      *)
(* ---------------------------------------------------------------------- *)

\* the descriptors the last operation is to handle
Selected ==
    IF op \in {"rotate", "remove"}
    THEN {i \in 1..Len(secrets) : secrets[i].path \in arg.paths}
    ELSE 1..Len(secrets)

\* a contract or a write failed at a descriptor that is not the last one
ContractFailed ==
    \E k \in 1..Len(log) :
        /\ Failed(k)
        /\ log[k].call \in {"generate", "write", "validate_value"}
        /\ \E i \in Selected : i > log[k].idx

\* C7: when a descriptor's generation contract or store write fails (in
\* generate_missing or rotate) or its validation contract fails (in
\* validate) and descriptors remain, the operation still handles them and
\* returns a per-path result instead of aborting at the first failure.
\* Taken on successfully sorted plans.
C7_FailureDoesNotAbort ==
    (op \in {"generate_missing", "rotate", "validate"} /\ sortedOk /\ ContractFailed)
    => /\ result.kind = "ok"
       /\ \A i \in Selected : \E k \in 1..Len(log) : log[k].idx = i

(* ---------------------------------------------------------------------- *)
(* C8                                                                      *)
(* ---------------------------------------------------------------------- *)

\* the error is the unknown-dependency error and names a declared dependency
\* that is the path of no descriptor
UnknownDependency ==
    /\ result.kind = "err"
    /\ result.err.kind = "not_found"
    /\ result.err.kind # CircularDependency(result.err.path).kind
    /\ result.err.path \notin PathsOf(arg.secrets)
    /\ \E i \in 1..Len(arg.secrets) : result.err.path \in Range(arg.secrets[i].deps)

\* C8 as claimed, taken on plans of pairwise distinct paths: if any
\* descriptor declares a dependency that is the path of no descriptor of the
\* plan, sort_by_dependencies fails with the unknown-dependency error and
\* never returns success.
C8_UnknownGivesUnknownError ==
    (op = "sort_by_dependencies" /\ DistinctPaths(arg.secrets) /\ ~DepsKnown(arg.secrets))
    => UnknownDependency

\* C8 as amended: for every plan with pairwise distinct paths in which some
\* descriptor declares a dependency that is the path of no descriptor,
\* sort_by_dependencies fails and never returns success; the error is the
\* unknown-dependency error, which differs from the circular-dependency
\* error, whenever the dependency relation has no cycle, and otherwise that
\* error or the circular-dependency error, whichever the traversal meets
\* first.
C8_DistinctUnknownNeverSucceeds ==
    (Sorting /\ DistinctPaths(arg.secrets) /\ ~DepsKnown(arg.secrets))
    => /\ result.kind = "err"
       /\ result.err.kind \in {"circular", "not_found"}
       /\ secrets = arg.secrets
       /\ ~sortedOk
       /\ result.err.kind = "not_found" => UnknownDependency
       /\ ~Cyclic(arg.secrets) => UnknownDependency

\* an unknown dependency of the second descriptor has been reported
C8_Witness ==
    /\ op = "sort_by_dependencies"
    /\ Len(arg.secrets) = 2
    /\ DistinctPaths(arg.secrets)
    /\ arg.secrets[1].deps = <<>>
    /\ arg.secrets[2].deps = <<UnknownPath>>
    /\ UnknownDependency

(* ---------------------------------------------------------------------- *)
(* C9                                                                      *)
(* ---------------------------------------------------------------------- *)

\* the descriptors the last operation wrote to the store
Rewritten ==
    {i \in 1..Len(secrets) :
        \E k \in 1..Len(log) :
            log[k].call = "write" /\ log[k].idx = i /\ log[k].res = "ok"}

\* C9: rotate(paths) handles the descriptors whose path is in paths in plan
\* order, generating a value and writing it whether the store has one or
\* not; it issues no write or delete for a descriptor whose path is not in
\* paths, ignores given paths that match no descriptor, and returns exactly
\* the paths it rewrote: whatever it rewrote is returned to the caller.
\* Taken on successfully sorted plans.
C9_RotateReturnsWhatItRewrote ==
    (op = "rotate" /\ sortedOk)
    => /\ \A k \in 1..Len(log) :
             /\ log[k].call \in {"generate", "write"}
             /\ secrets[log[k].idx].path \in arg.paths
       /\ \A j, k \in 1..Len(log) : j < k => log[j].idx <= log[k].idx
       /\ Rewritten # {} => result.kind = "ok"
       /\ result.kind = "ok" => result.val = SelectPaths(secrets, 1, Rewritten)

(* ---------------------------------------------------------------------- *)
(* C10                                                                     *)
(* ---------------------------------------------------------------------- *)

\* what validate is to report for descriptor i: Missing when its read
\* failed, else what its validate_value contract returned
Reported(i) ==
    IF \E k \in 1..Len(log) :
          log[k].call = "read" /\ log[k].idx = i /\ log[k].res = "err"
    THEN "Missing"
    ELSE IF \E k \in 1..Len(log) : log[k].call = "validate_value" /\ log[k].idx = i
    THEN (CHOOSE c \in Range(log) : c.call = "validate_value" /\ c.idx = i).res
    ELSE "none"

\* C10: validate returns one result per plan descriptor, under its path:
\* Missing for a descriptor whose read fails, which never makes validate
\* return an error, and the outcome of validate_value for a descriptor whose
\* read succeeds; validate and check never write to or delete from the store.
\* The results are taken on successfully sorted plans.
C10_ValidateReportsEveryDescriptor ==
    /\ op \in {"validate", "check"}
       => /\ store = arg.store
          /\ \A k \in 1..Len(log) : log[k].call \notin {"write", "delete"}
    /\ (op = "validate" /\ sortedOk)
       => /\ result.kind = "ok"
          /\ DOMAIN result.val = PathsOf(secrets)
          /\ \A i \in 1..Len(secrets) :
                (\A j \in (i + 1)..Len(secrets) : secrets[j].path # secrets[i].path)
                => result.val[secrets[i].path] = Reported(i)


(* ---------------------------------------------------------------------- *)
(* The manifest cache (genesis-manifest/src/cache.rs, types.rs)            *)
(* ---------------------------------------------------------------------- *)

MaxTime == 2         \* the clock runs from 0 to MaxTime
MaxEntries == 2      \* max_entries is drawn from 0..MaxEntries

Envs == {"e1", "e2"}
Contents == {"a", "bb"}
\* content rewritten on disk behind the cache's back
TamperedContent == "x"

\* ManifestMetadata: the environment and what else was built into the content
ManifestMetadata(env, kit_version) == [env_name |-> env, kit_version |-> kit_version]

\* the manifests of an environment: a content and the metadata that goes with it
Manifests(env) ==
    {[content |-> "a", metadata |-> ManifestMetadata(env, "v1")],
     [content |-> "bb", metadata |-> ManifestMetadata(env, "v2")]}

\* with_max_age: one already elapsed, one positive
MaxAges == {-1, 1}

None == [some |-> FALSE, val |-> <<>>]
Some(v) == [some |-> TRUE, val |-> v]

\* hex of Sha256 over the content
sha256(content) == "sha256:" \o content

\* A file of the directory: absent, unparseable bytes, or a serialized
\* CachedManifest.  mtime is the file system's modification time.
NoFile == [kind |-> "absent"]
Unparseable(mt) == [kind |-> "garbage", mtime |-> mt]
JsonFile(cached, mt) == [kind |-> "json", cached |-> cached, mtime |-> mt]

CachedManifest_new(content, metadata, now) ==
    [content |-> content, metadata |-> metadata, cached_at |-> now,
     content_hash |-> sha256(content)]

CachedManifest_validate(cached) == sha256(cached.content) = cached.content_hash

CachedManifest_is_expired(cached, max_age, now) == now - cached.cached_at > max_age

\* read_to_string + serde_json::from_str
CachedManifest_load_from_file(file) ==
    IF file.kind = "json" THEN Ok(file.cached) ELSE Err(ParseError)

\* to_string_pretty + std::fs::write
CachedManifest_save_to_file(d, env, cached, now) ==
    [d EXCEPT ![env] = JsonFile(cached, now)]

\* The file system carries out what it is asked: create_dir_all, write,
\* read_dir and remove_file return Ok, so the `?` after them never leaves.
CacheOutcome(d, res) == [dir |-> d, result |-> res]

exists(d, env) == d[env].kind # "absent"

ManifestCache_remove(d, env) ==
    IF exists(d, env) THEN [d EXCEPT ![env] = NoFile] ELSE d

ManifestCache_get_ignoring_age(d, env, c, now) ==
    IF ~exists(d, env) THEN CacheOutcome(d, Ok(None))
    ELSE LET loaded == CachedManifest_load_from_file(d[env])
         IN  IF loaded.kind = "ok"
             THEN IF ~CachedManifest_validate(loaded.val)
                  THEN CacheOutcome(ManifestCache_remove(d, env), Ok(None))
                  ELSE CacheOutcome(d, Ok(Some(loaded.val)))
             ELSE CacheOutcome(d, Ok(None))

ManifestCache_get_ignoring_hash(d, env, c, now) ==
    IF ~exists(d, env) THEN CacheOutcome(d, Ok(None))
    ELSE LET loaded == CachedManifest_load_from_file(d[env])
         IN  IF loaded.kind = "ok"
             THEN IF CachedManifest_is_expired(loaded.val, c.max_age, now)
                  THEN CacheOutcome(ManifestCache_remove(d, env), Ok(None))
                  ELSE CacheOutcome(d, Ok(Some(loaded.val)))
             ELSE CacheOutcome(d, Ok(None))

ManifestCache_get(d, env, c, now) ==
    IF ~exists(d, env) THEN CacheOutcome(d, Ok(None))
    ELSE LET loaded == CachedManifest_load_from_file(d[env])
         IN  IF loaded.kind = "ok"
             THEN IF CachedManifest_is_expired(loaded.val, c.max_age, now)
                  THEN CacheOutcome(ManifestCache_remove(d, env), Ok(None))
                  ELSE IF ~CachedManifest_validate(loaded.val)
                  THEN CacheOutcome(ManifestCache_remove(d, env), Ok(None))
                  ELSE CacheOutcome(d, Ok(Some(loaded.val)))
             ELSE \* "Failed to load cache": a miss, the file stays
                  CacheOutcome(d, Ok(None))

\* fs::read_dir yields the files in an order of the file system's choosing
ReadDirOrders ==
    {o \in [1..Cardinality(Envs) -> Envs] : \A e \in Envs : \E i \in DOMAIN o : o[i] = e}

\* the *.json files of the directory, in read_dir order
json_files(d, order) == SelectSeq(order, LAMBDA e : exists(d, e))

\* files.sort_by(|a, b| a.1.cmp(&b.1)): stable, oldest first
RECURSIVE sort_by_modified(_, _)
sort_by_modified(files, d) ==
    IF files = <<>> THEN <<>>
    ELSE LET n == Len(files)
             sorted == sort_by_modified(SubSeq(files, 1, n - 1), d)
             x == files[n]
             k == Cardinality({i \in 1..Len(sorted) : d[sorted[i]].mtime <= d[x].mtime})
         IN  SubSeq(sorted, 1, k) \o <<x>> \o SubSeq(sorted, k + 1, Len(sorted))

RECURSIVE remove_files(_, _)
remove_files(d, files) ==
    IF files = <<>> THEN d
    ELSE remove_files([d EXCEPT ![Head(files)] = NoFile], Tail(files))

ManifestCache_cleanup_newest_first(d, order, c) ==
    LET files == json_files(d, order)
    IN  IF Len(files) <= c.max_entries THEN d
        ELSE LET sorted == sort_by_modified(files, d)
             IN  remove_files(d, SubSeq(sorted, c.max_entries + 1, Len(sorted)))

ManifestCache_cleanup(d, order, c) ==
    LET files == json_files(d, order)
    IN  IF Len(files) <= c.max_entries THEN d
        ELSE LET sorted == sort_by_modified(files, d)
                 to_remove == Len(files) - c.max_entries
             IN  remove_files(d, SubSeq(sorted, 1, to_remove))

ManifestCache_put(d, env, content, metadata, order, c, now) ==
    LET cached == CachedManifest_new(content, metadata, now)
        saved == CachedManifest_save_to_file(d, env, cached, now)
    IN  CacheOutcome(ManifestCache_cleanup(saved, order, c), Ok(<<>>))

\* a file verify counts as invalid: it does not load, or its hash is wrong
invalid(file) ==
    LET loaded == CachedManifest_load_from_file(file)
    IN  IF loaded.kind = "ok" THEN ~CachedManifest_validate(loaded.val) ELSE TRUE

VerifyResult(total, valid, inv, paths) ==
    [total |-> total, valid |-> valid, invalid |-> inv, invalid_paths |-> paths]

ManifestCache_verify(d, order) ==
    LET files == json_files(d, order)
        bad == SelectSeq(files, LAMBDA e : invalid(d[e]))
    IN  Ok(VerifyResult(Len(files), Len(files) - Len(bad), Len(bad), bad))

ManifestCache_repair_evicting_expired(d, order, c, now) ==
    LET bad == SelectSeq(json_files(d, order),
                         LAMBDA e : \/ invalid(d[e])
                                    \/ CachedManifest_is_expired(d[e].cached, c.max_age, now))
    IN  CacheOutcome(remove_files(d, bad), Ok(Len(bad)))

ManifestCache_repair(d, order, c, now) ==
    LET verify_result == ManifestCache_verify(d, order).val
    IN  CacheOutcome(remove_files(d, verify_result.invalid_paths),
                     Ok(Len(verify_result.invalid_paths)))


(* ---------------------------------------------------------------------- *)
(* CachedManifestProvider (genesis-manifest/src/provider.rs)               *)
(* ---------------------------------------------------------------------- *)

MergeEngineFailure == [kind |-> "merge_engine", path |-> ""]

\* the secret reference an evaluation may leave unresolved
PendingLists == {<<>>, <<"secret/a:k">>}

PartialManifest_new(content, metadata, pending_secrets) ==
    [content |-> content, metadata |-> metadata, pending_secrets |-> pending_secrets]

is_complete(partial) == partial.pending_secrets = <<>>

\* self.spruce.eval(temp_file.path()) on the content
spruce_eval(content) == "eval(" \o content \o ")"

\* StandardManifestProvider::evaluate: what the merge engine makes of the
\* unevaluated manifest, or its failure
InnerResults(unevaluated) ==
    {Err(MergeEngineFailure)} \cup
    {Ok(PartialManifest_new(spruce_eval(unevaluated.content), unevaluated.metadata, ps)) :
        ps \in PendingLists}

ProviderOutcome(d, res, lg) == [dir |-> d, result |-> res, log |-> lg]

evaluate_always_merging(d, unevaluated, inner, order, c, now) ==
    LET env_name == unevaluated.metadata.env_name
        got == ManifestCache_get(d, env_name, c, now)
    IN  IF inner.kind # "ok" THEN ProviderOutcome(got.dir, inner, <<"inner.evaluate">>)
        ELSE IF is_complete(inner.val)
        THEN ProviderOutcome(
                 ManifestCache_put(got.dir, env_name, inner.val.content,
                                   inner.val.metadata, order, c, now).dir,
                 inner, <<"inner.evaluate">>)
        ELSE ProviderOutcome(got.dir, inner, <<"inner.evaluate">>)

evaluate_caching_partial(d, unevaluated, inner, order, c, now) ==
    LET env_name == unevaluated.metadata.env_name
        got == ManifestCache_get(d, env_name, c, now)
    IN  IF got.result.val.some
        THEN ProviderOutcome(got.dir,
                 Ok(PartialManifest_new(got.result.val.val.content,
                                        got.result.val.val.metadata, <<>>)),
                 <<>>)
        ELSE IF inner.kind # "ok" THEN ProviderOutcome(got.dir, inner, <<"inner.evaluate">>)
        ELSE ProviderOutcome(
                 ManifestCache_put(got.dir, env_name, inner.val.content,
                                   inner.val.metadata, order, c, now).dir,
                 inner, <<"inner.evaluate">>)

\* CachedManifestProvider::evaluate; inner is what inner.evaluate returns
\* when it is called
evaluate(d, unevaluated, inner, order, c, now) ==
    LET env_name == unevaluated.metadata.env_name
        got == ManifestCache_get(d, env_name, c, now)
    IN  IF got.result.val.some
        THEN ProviderOutcome(got.dir,
                 Ok(PartialManifest_new(got.result.val.val.content,
                                        got.result.val.val.metadata, <<>>)),
                 <<>>)
        ELSE IF inner.kind # "ok" THEN ProviderOutcome(got.dir, inner, <<"inner.evaluate">>)
        ELSE IF is_complete(inner.val)
        THEN ProviderOutcome(
                 ManifestCache_put(got.dir, env_name, inner.val.content,
                                   inner.val.metadata, order, c, now).dir,
                 inner, <<"inner.evaluate">>)
        ELSE ProviderOutcome(got.dir, inner, <<"inner.evaluate">>)

(* ---------------------------------------------------------------------- *)
(* The cache and the provider as a state machine                           *)
(* ---------------------------------------------------------------------- *)

\* no plan is in use
NoPlan ==
    /\ secrets = <<>>
    /\ store = {}
    /\ sortedOk = FALSE
    /\ op = "new"
    /\ arg = [secrets |-> <<>>, paths |-> {}, store |-> {}]
    /\ result = Ok(<<>>)
    /\ log = <<>>

\* ManifestCache::new(..).with_max_age(..).with_max_entries(..) on an empty
\* directory
InitCache ==
    /\ NoPlan
    /\ NoCallers
    /\ NoEntomb
    /\ NoLater
    /\ dir = [e \in Envs |-> NoFile]
    /\ clock = 0
    /\ cache \in [max_age : MaxAges, max_entries : 0..MaxEntries]
    /\ cop = "new"
    /\ carg = [env |-> "", manifest |-> None, inner |-> None, dir |-> dir]
    /\ cres = Ok(<<>>)
    /\ clog = <<>>

\* the input of a cache operation and the directory before the call
CacheInput(env, manifest, inner) ==
    [env |-> env, manifest |-> manifest, inner |-> inner, dir |-> dir]

CacheApply(name, a, d, res, lg) ==
    /\ dir' = d
    /\ cop' = name
    /\ carg' = a
    /\ cres' = res
    /\ clog' = lg
    /\ UNCHANGED <<clock, cache>>
    /\ UNCHANGED <<vars, writeVars, entombVars, laterVars>>

CacheGet ==
    \E env \in Envs :
        LET o == ManifestCache_get(dir, env, cache, clock)
        IN  CacheApply("get", CacheInput(env, None, None), o.dir, o.result, <<>>)

CachePut ==
    \E env \in Envs : \E m \in Manifests(env) : \E order \in ReadDirOrders :
        LET o == ManifestCache_put(dir, env, m.content, m.metadata, order, cache, clock)
        IN  CacheApply("put", CacheInput(env, Some(m), None), o.dir, o.result, <<>>)

CacheVerify ==
    \E order \in ReadDirOrders :
        CacheApply("verify", CacheInput("", None, None), dir,
                   ManifestCache_verify(dir, order), <<>>)

CacheRepair ==
    \E order \in ReadDirOrders :
        LET o == ManifestCache_repair(dir, order, cache, clock)
        IN  CacheApply("repair", CacheInput("", None, None), o.dir, o.result, <<>>)

Evaluate ==
    \E env \in Envs : \E m \in Manifests(env) : \E inner \in InnerResults(m) :
    \E order \in ReadDirOrders :
        LET o == evaluate(dir, m, inner, order, cache, clock)
        IN  CacheApply("evaluate", CacheInput(env, Some(m), Some(inner)),
                       o.dir, o.result, o.log)

\* time passes
Tick ==
    /\ clock < MaxTime
    /\ clock' = clock + 1
    /\ cop' = "tick"
    /\ carg' = CacheInput("", None, None)
    /\ cres' = Ok(<<>>)
    /\ clog' = <<>>
    /\ UNCHANGED <<dir, cache>>
    /\ UNCHANGED <<vars, writeVars, entombVars, laterVars>>

\* what the disk or another program can do to a file of the directory:
\* leave bytes that do not parse, or change the content under its hash
Damaged(file) ==
    {Unparseable(file.mtime)} \cup
    (IF file.kind = "json"
     THEN {JsonFile([file.cached EXCEPT !.content = TamperedContent], file.mtime)}
     ELSE {})

Corrupt ==
    /\ \E env \in Envs :
          /\ exists(dir, env)
          /\ \E f \in Damaged(dir[env]) :
                /\ f # dir[env]
                /\ dir' = [dir EXCEPT ![env] = f]
    /\ cop' = "corrupt"
    /\ carg' = CacheInput("", None, None)
    /\ cres' = Ok(<<>>)
    /\ clog' = <<>>
    /\ UNCHANGED <<clock, cache>>
    /\ UNCHANGED <<vars, writeVars, entombVars, laterVars>>

\* a ManifestCache in the hands of one caller
NextCache ==
    \/ CacheGet
    \/ CachePut
    \/ CacheVerify
    \/ CacheRepair
    \/ Tick
    \/ Corrupt

allVars == <<vars, cacheVars, writeVars, entombVars, laterVars>>

SpecCache == InitCache /\ [][NextCache]_allVars

\* a CachedManifestProvider, which keeps its ManifestCache to itself
NextProvider ==
    \/ Evaluate
    \/ Tick
    \/ Corrupt

SpecProvider == InitCache /\ [][NextProvider]_allVars


(* ---------------------------------------------------------------------- *)
(* Properties of the cache                                                 *)
(* ---------------------------------------------------------------------- *)

\* the file of the environment the last operation was called for, before it
FileBefore == carg.dir[carg.env]

Getting == cop = "get"
Miss == cres = Ok(None)
Hit == cres.kind = "ok" /\ cres.val.some

\* get was called for a file that parses and is older than max_age
GotExpired ==
    /\ Getting
    /\ FileBefore.kind = "json"
    /\ CachedManifest_is_expired(FileBefore.cached, cache.max_age, clock)

GotMismatch ==
    /\ Getting
    /\ FileBefore.kind = "json"
    /\ ~CachedManifest_is_expired(FileBefore.cached, cache.max_age, clock)
    /\ ~CachedManifest_validate(FileBefore.cached)

GotCorrupted ==
    /\ Getting
    /\ exists(carg.dir, carg.env)
    /\ invalid(FileBefore)

\* C13: get(env) on a present but corrupted entry (unparseable file or hash
\* mismatch) returns a miss rather than an error, and the corrupted entry
\* has been removed when get returns.
C13_CorruptedEntryIsRemoved ==
    GotCorrupted => Miss /\ dir[carg.env] = NoFile


(* ---------------------------------------------------------------------- *)
(* put and get of one environment called at the same time                  *)
(* (cache.rs put / get, types.rs save_to_file / load_from_file)            *)
(* ---------------------------------------------------------------------- *)

\* the environment the callers share
SharedEnv == "e1"

Writers == {"w1", "w2"}
Reader == "r"

\* the characters of a content
chars(content) == IF content = "a" THEN <<"a">> ELSE <<"b", "b">>
Chars == {"a", "b"}

RECURSIVE concat(_)
concat(cs) == IF cs = <<>> THEN "" ELSE Head(cs) \o concat(Tail(cs))

\* the tokens the fields of an entry are written as
metadata_token(metadata) == metadata.env_name \o "/" \o metadata.kit_version
time_token(t) == "t" \o ToString(t)
AllMetadata == {m.metadata : m \in Manifests(SharedEnv)}
AllTimes == 0..MaxTime
Hashes == {sha256(concat(cs)) : cs \in UNION {[1..n -> Chars] : n \in 1..2}}

\* serde_json::to_string_pretty of a CachedManifest
to_string_pretty(cached) ==
    <<"{">> \o chars(cached.content)
            \o <<metadata_token(cached.metadata), time_token(cached.cached_at),
                 cached.content_hash, "}">>

\* serde_json::from_str: the entry the bytes spell, or an error
from_str(bytes) ==
    LET n == Len(bytes)
    IN  IF /\ n >= 6
           /\ bytes[1] = "{"
           /\ bytes[n] = "}"
           /\ bytes[n - 1] \in Hashes
           /\ bytes[n - 2] \in {time_token(t) : t \in AllTimes}
           /\ bytes[n - 3] \in {metadata_token(m) : m \in AllMetadata}
           /\ \A i \in 2..(n - 4) : bytes[i] \in Chars
        THEN Ok([content |-> concat(SubSeq(bytes, 2, n - 4)),
                 metadata |-> CHOOSE m \in AllMetadata : metadata_token(m) = bytes[n - 3],
                 cached_at |-> CHOOSE t \in AllTimes : time_token(t) = bytes[n - 2],
                 content_hash |-> bytes[n - 1]])
        ELSE Err(ParseError)

NoDisk == [exists |-> FALSE, bytes |-> <<>>]
OnDisk(bytes) == [exists |-> TRUE, bytes |-> bytes]

\* a byte never written, inside a file that was truncated under a writer
Hole == "0"

\* write(2) of chunk at offset off
write_at(bytes, off, chunk) ==
    LET n == IF Len(bytes) > off + Len(chunk) THEN Len(bytes) ELSE off + Len(chunk)
    IN  [i \in 1..n |->
            IF i > off /\ i <= off + Len(chunk) THEN chunk[i - off]
            ELSE IF i <= Len(bytes) THEN bytes[i]
            ELSE Hole]

Closed == [buf |-> <<>>, off |-> 0, linked |-> FALSE]

\* remove_file: the path is gone, open files keep writing to what it was
unlinked(f) == [w \in Writers |-> [f[w] EXCEPT !.linked = FALSE]]

InitWrite ==
    /\ NoPlan
    /\ NoEntomb
    /\ NoLater
    /\ dir = <<>>
    /\ clock = 0
    /\ cache \in [max_age : {a \in MaxAges : a > 0}, max_entries : 0..MaxEntries]
    /\ cop = "none"
    /\ carg = <<>>
    /\ cres = <<>>
    /\ clog = <<>>
    /\ disk = NoDisk
    /\ pc = [p \in Writers \cup {Reader} |-> "idle"]
    /\ fd = [w \in Writers |-> Closed]
    /\ seen = NoDisk
    /\ answer = Ok(None)

WriteFrame == UNCHANGED <<vars, entombVars, laterVars, dir, clock, cache, cop, carg, cres, clog>>

\* put up to File::create inside std::fs::write: the file at the path is
\* created, or truncated where it is
PutCreate(w) ==
    /\ pc[w] = "idle"
    /\ \E m \in Manifests(SharedEnv) :
          LET cached == CachedManifest_new(m.content, m.metadata, clock)
          IN  fd' = [fd EXCEPT ![w] = [buf |-> to_string_pretty(cached), off |-> 0,
                                       linked |-> TRUE]]
    /\ disk' = OnDisk(<<>>)
    /\ pc' = [pc EXCEPT ![w] = "write_all"]
    /\ UNCHANGED <<seen, answer>>
    /\ WriteFrame

\* write_all: the buffer goes out in one write(2) at the offset of the
\* writer's own file
PutWrite(w) ==
    /\ pc[w] = "write_all"
    /\ LET n == Len(fd[w].buf) - fd[w].off
           chunk == SubSeq(fd[w].buf, fd[w].off + 1, fd[w].off + n)
       IN  /\ disk' = IF fd[w].linked
                      THEN OnDisk(write_at(disk.bytes, fd[w].off, chunk))
                      ELSE disk
           /\ fd' = [fd EXCEPT ![w].off = fd[w].off + n]
    /\ pc' = [pc EXCEPT ![w] = "cleanup"]
    /\ UNCHANGED <<seen, answer>>
    /\ WriteFrame

\* the file is closed and put runs cleanup over the one file of the directory
PutCleanup(w) ==
    /\ pc[w] = "cleanup"
    /\ LET files == IF disk.exists THEN 1 ELSE 0
       IN  IF files <= cache.max_entries
           THEN /\ disk' = disk
                /\ fd' = [fd EXCEPT ![w] = Closed]
           ELSE /\ disk' = NoDisk
                /\ fd' = [unlinked(fd) EXCEPT ![w] = Closed]
    /\ pc' = [pc EXCEPT ![w] = "idle"]
    /\ UNCHANGED <<seen, answer>>
    /\ WriteFrame

\* get up to its verdict on what load_from_file read
GetLoad ==
    /\ pc[Reader] = "idle"
    /\ seen' = disk
    /\ LET loaded == from_str(disk.bytes)
       IN  IF ~disk.exists \/ loaded.kind # "ok"
           THEN /\ answer' = Ok(None)
                /\ pc' = pc
           ELSE IF \/ CachedManifest_is_expired(loaded.val, cache.max_age, clock)
                   \/ ~CachedManifest_validate(loaded.val)
           THEN /\ answer' = answer
                /\ pc' = [pc EXCEPT ![Reader] = "remove"]
           ELSE /\ answer' = Ok(Some(loaded.val))
                /\ pc' = pc
    /\ UNCHANGED <<disk, fd>>
    /\ WriteFrame

\* self.remove(env_name)?; Ok(None)
GetRemove ==
    /\ pc[Reader] = "remove"
    /\ IF disk.exists
       THEN /\ disk' = NoDisk
            /\ fd' = unlinked(fd)
       ELSE UNCHANGED <<disk, fd>>
    /\ answer' = Ok(None)
    /\ pc' = [pc EXCEPT ![Reader] = "idle"]
    /\ UNCHANGED seen
    /\ WriteFrame

\* time passes between the callers' steps
Elapse ==
    /\ clock < MaxTime
    /\ clock' = clock + 1
    /\ UNCHANGED <<vars, entombVars, laterVars, writeVars, dir, cache, cop, carg, cres, clog>>

NextWrite ==
    \/ Elapse
    \/ \E w \in Writers : PutCreate(w)
    \/ \E w \in Writers : PutWrite(w)
    \/ \E w \in Writers : PutCleanup(w)
    \/ GetLoad
    \/ GetRemove

SpecWrite == InitWrite /\ [][NextWrite]_allVars

\* the bytes are a complete entry some put wrote
Whole(bytes) ==
    \E m \in Manifests(SharedEnv) : \E t \in AllTimes :
        bytes = to_string_pretty(CachedManifest_new(m.content, m.metadata, t))

\* C14: while put(env) runs at the same time as get(env) or another put(env),
\* the entry for env is at every instant absent, a complete entry written
\* before, or the complete new entry: no reader observes a partially written
\* entry and none is left on disk.
C14_EntryIsAlwaysWhole ==
    /\ disk.exists => Whole(disk.bytes)
    /\ seen.exists => Whole(seen.bytes)

\* a partially written entry is on disk with no put under way
C14_PartialEntryLeftOnDisk ==
    /\ \A w \in Writers : pc[w] = "idle"
    /\ disk.exists
    /\ ~Whole(disk.bytes)


(* ---------------------------------------------------------------------- *)
(* Properties of put, cleanup, verify and repair                           *)
(* ---------------------------------------------------------------------- *)

Putting == cop = "put" /\ cres.kind = "ok"

\* the files of a directory
Entries(d) == {e \in Envs : exists(d, e)}

\* the directory as save_to_file left it, before cleanup ran
Saved ==
    CachedManifest_save_to_file(carg.dir, carg.env,
        CachedManifest_new(carg.manifest.val.content, carg.manifest.val.metadata, clock),
        clock)

\* what the cleanup of the last put removed
Evicted == Entries(Saved) \ Entries(dir)

C16_PutThenGetHits ==
    (Putting /\ cache.max_entries >= 1 /\ cache.max_age > 0) =>
        LET o == ManifestCache_get(dir, carg.env, cache, clock).result
        IN  /\ o.kind = "ok"
            /\ o.val.some
            /\ o.val.val.content = carg.manifest.val.content
            /\ o.val.val.metadata = carg.manifest.val.metadata

\* an operation that only reads or repairs
Verifying == cop = "verify"
Repairing == cop = "repair"

\* the entries of the directory before the call that do not load or do not
\* match their hash
InvalidBefore == {e \in Entries(carg.dir) : invalid(carg.dir[e])}

Evaluating == cop = "evaluate"

\* the entries the last operation wrote: files that are there and are not
\* what they were
Written == {e \in Entries(dir) : dir[e] # carg.dir[e]}

\* the result of the evaluation the provider ran, when it ran one
Evaluated == carg.inner.val

\* evaluate returned a Partial with a pending secret
YieldedPending ==
    /\ Evaluating
    /\ cres.kind = "ok"
    /\ cres.val.pending_secrets # <<>>

\* every entry evaluate wrote holds the content of an evaluation result with
\* no pending secret
WritesOnlyComplete ==
    Evaluating =>
        \A e \in Written :
            /\ clog = <<"inner.evaluate">>
            /\ Evaluated.kind = "ok"
            /\ Evaluated.val.pending_secrets = <<>>
            /\ dir[e].cached.content = Evaluated.val.content

\* C18: every cache entry the CachedManifestProvider has written holds the
\* content of an evaluation result whose pending_secrets was empty; an
\* evaluate that yields a Partial with at least one pending secret leaves
\* the cache unchanged.
C18_PendingLeavesCacheUnchanged ==
    /\ WritesOnlyComplete
    /\ YieldedPending => dir = carg.dir

\* C18, amended: every cache entry the CachedManifestProvider has written
\* holds the content of an evaluation result whose pending_secrets was
\* empty; an evaluate that yields a Partial with at least one pending secret
\* writes no entry, and changes the cache at most by the eviction of the
\* environment's own expired or hash-mismatched entry that its get made.
C18_PendingWritesNoEntry ==
    /\ WritesOnlyComplete
    /\ YieldedPending =>
          /\ Written = {}
          /\ dir = ManifestCache_get(carg.dir, carg.env, cache, clock).dir

\* an evaluate that yielded a pending secret found a stale entry for its
\* environment, evicted it and wrote nothing
C18_Witness ==
    /\ YieldedPending
    /\ dir # carg.dir
    /\ Written = {}

\* evaluate was called with a valid, unexpired entry for the environment
HadValidEntry ==
    /\ Evaluating
    /\ FileBefore.kind = "json"
    /\ CachedManifest_validate(FileBefore.cached)
    /\ ~CachedManifest_is_expired(FileBefore.cached, cache.max_age, clock)

\* C19: with a valid, unexpired entry for the environment in the cache,
\* evaluate returns a Partial with the cached content and empty
\* pending_secrets, without calling the merge engine and without modifying
\* the cache.
C19_HitSkipsMergeEngine ==
    HadValidEntry =>
        /\ cres = Ok(PartialManifest_new(FileBefore.cached.content,
                                         FileBefore.cached.metadata, <<>>))
        /\ clog = <<>>
        /\ dir = carg.dir

\* a hit whose content is not what the merge engine would have produced
C19_Witness ==
    /\ HadValidEntry
    /\ cres.kind = "ok"
    /\ cres.val.content # spruce_eval(carg.manifest.val.content)
    /\ clog = <<>>


(* ---------------------------------------------------------------------- *)
(* StandardManifestProvider::entomb (genesis-manifest/src/provider.rs)     *)
(* ---------------------------------------------------------------------- *)

MaxPending == 2      \* pending_secrets of a manifest

\* Strings are sequences of characters here, so that split and format! do
\* what they do.  References a manifest may hold: store_path:key ones, one
\* without a colon and one with two.
SecretRefs ==
    {<<"a", ":", "k">>, <<"b", ":", "k">>, <<"a", ":", "j">>,
     <<"a">>, <<"a", ":", "k", ":", "j">>}

PendingSecrets == UNION {[1..n -> SecretRefs] : n \in 0..MaxPending}

VaultPrefixes == {<<"p">>, <<"q">>}

\* secret_path.split(':')
RECURSIVE split(_)
split(s) ==
    IF \A i \in 1..Len(s) : s[i] # ":" THEN <<s>>
    ELSE LET i == CHOOSE k \in 1..Len(s) : s[k] = ":" /\ \A j \in 1..(k - 1) : s[j] # ":"
         IN  <<SubSeq(s, 1, i - 1)>> \o split(SubSeq(s, i + 1, Len(s)))

\* format!("{}/{}", vault_prefix, vault_path)
vault_full_path(vault_prefix, vault_path) == vault_prefix \o <<"/">> \o vault_path

\* the paths of the vault a record may sit at, and the keys it may hold
VaultPaths == {<<"p", "/", "a">>, <<"p", "/", "b">>}
VaultKeys == {<<"k">>, <<"j">>}

\* what the vault answers a read of each path with: its record, or an error
VaultRecord(keys) == [kind |-> "ok", keys |-> keys]
VaultReadError == [kind |-> "err", keys |-> {}]
Vaults == [VaultPaths -> {VaultReadError} \cup {VaultRecord(ks) : ks \in SUBSET VaultKeys}]

\* vault_client.read(&full_path)
vault_read(v, path) == IF path \in DOMAIN v THEN v[path] ELSE VaultReadError

EntombedManifest_new(content, metadata, entombed_secrets) ==
    [content |-> content, metadata |-> metadata, entombed_secrets |-> entombed_secrets]

RECURSIVE entombed_without_key_check(_, _, _)
entombed_without_key_check(pending, v, vault_prefix) ==
    IF pending = <<>> THEN <<>>
    ELSE LET secret_path == Head(pending)
             parts == split(secret_path)
             rest == entombed_without_key_check(Tail(pending), v, vault_prefix)
         IN  IF Len(parts) # 2 THEN rest
             ELSE LET data == vault_read(v, vault_full_path(vault_prefix, parts[1]))
                  IN  IF data.kind = "ok" THEN <<secret_path>> \o rest
                      ELSE rest

\* the loop over manifest.pending_secrets
RECURSIVE entombed(_, _, _)
entombed(pending, v, vault_prefix) ==
    IF pending = <<>> THEN <<>>
    ELSE LET secret_path == Head(pending)
             parts == split(secret_path)
             rest == entombed(Tail(pending), v, vault_prefix)
         IN  IF Len(parts) # 2 THEN rest
             ELSE LET data == vault_read(v, vault_full_path(vault_prefix, parts[1]))
                  IN  IF data.kind = "ok" /\ parts[2] \in data.keys
                      THEN <<secret_path>> \o rest
                      ELSE rest

\* eval_ok: whether the temp file and the merge engine run succeed
entomb(manifest, v, vault_prefix, eval_ok) ==
    LET entombed_secrets == entombed(manifest.pending_secrets, v, vault_prefix)
    IN  IF ~eval_ok THEN Err(MergeEngineFailure)
        ELSE Ok(EntombedManifest_new(spruce_eval(manifest.content), manifest.metadata,
                                     entombed_secrets))

EntombInput(manifest, vault_prefix, eval_ok) ==
    [manifest |-> manifest, vault_prefix |-> vault_prefix, eval_ok |-> eval_ok]

\* before entomb is called
NotCalled == EntombInput(PartialManifest_new("", ManifestMetadata("", ""), <<>>), <<>>, TRUE)

InitEntomb ==
    /\ NoPlan
    /\ NoCache
    /\ NoCallers
    /\ NoLater
    /\ vault \in Vaults
    /\ earg = NotCalled
    /\ eres = Ok(<<>>)

\* one command entombs one manifest
Entomb ==
    /\ earg = NotCalled
    /\ \E env \in Envs : \E m \in Manifests(env) : \E pending \in PendingSecrets :
       \E vault_prefix \in VaultPrefixes : \E eval_ok \in BOOLEAN :
          LET manifest == PartialManifest_new(m.content, m.metadata, pending)
          IN  /\ earg' = EntombInput(manifest, vault_prefix, eval_ok)
              /\ eres' = entomb(manifest, vault, vault_prefix, eval_ok)
    /\ UNCHANGED vault
    /\ UNCHANGED <<vars, cacheVars, writeVars, laterVars>>

\* the store changes before the next command
VaultChange ==
    /\ \E v \in Vaults :
          /\ \E p \in VaultPaths : \A q \in VaultPaths \ {p} : v[q] = vault[q]
          /\ v # vault
          /\ vault' = v
    /\ earg' = NotCalled
    /\ eres' = Ok(<<>>)
    /\ UNCHANGED <<vars, cacheVars, writeVars, laterVars>>

NextEntomb ==
    \/ Entomb
    \/ VaultChange

SpecEntomb == InitEntomb /\ [][NextEntomb]_allVars

\* the place of the one colon of a reference of the form store_path:key
Colons(ref) == {i \in 1..Len(ref) : ref[i] = ":"}
IsStorePathKey(ref) == Cardinality(Colons(ref)) = 1
ColonOf(ref) == CHOOSE i \in Colons(ref) : TRUE

\* the read of prefix + "/" + store_path succeeds and the record has the key
InStore(ref) ==
    LET path == earg.vault_prefix \o <<"/">> \o SubSeq(ref, 1, ColonOf(ref) - 1)
        key == SubSeq(ref, ColonOf(ref) + 1, Len(ref))
    IN  /\ path \in DOMAIN vault
        /\ vault[path].kind = "ok"
        /\ key \in vault[path].keys

Pending == earg.manifest.pending_secrets

Entombing == earg # NotCalled

\* C20: entomb never fails because a store read fails or a key is missing;
\* entombed_secrets is exactly the sub-sequence of the pending_secrets of
\* the form store_path:key whose read of prefix + "/" + store_path succeeds
\* with a record that contains key: a subset of pending_secrets, and of two
\* references of which one exists in the store exactly one is entombed.
C20_EntombsExactlyTheStored ==
    /\ Entombing /\ earg.eval_ok => eres.kind = "ok"
    /\ Entombing /\ eres.kind = "ok" =>
          /\ eres.val.entombed_secrets =
                SelectSeq(Pending, LAMBDA ref : IsStorePathKey(ref) /\ InStore(ref))
          /\ Range(eres.val.entombed_secrets) \subseteq Range(Pending)
          /\ (Len(Pending) = 2 /\ \E i \in 1..2 : \A j \in 1..2 :
                  (IsStorePathKey(Pending[j]) /\ InStore(Pending[j])) <=> j = i)
                => Len(eres.val.entombed_secrets) = 1

\* two references were pending: one the store has, and one whose record is
\* there without the key or whose read failed; exactly the first is entombed
C20_Witness ==
    /\ Entombing
    /\ eres.kind = "ok"
    /\ Len(Pending) = 2
    /\ IsStorePathKey(Pending[1]) /\ InStore(Pending[1])
    /\ IsStorePathKey(Pending[2]) /\ ~InStore(Pending[2])
    /\ eres.val.entombed_secrets = <<Pending[1]>>


(* ---------------------------------------------------------------------- *)
(* The manifest pipeline (genesis-manifest/src/provider.rs, builder.rs)    *)
(* ---------------------------------------------------------------------- *)

\* the source files a kit and an environment may name
KitBaseFiles == {<<>>, <<"base.yml">>, <<"net.yml", "base.yml">>}
KitFeatureFiles == {<<>>, <<"ha.yml">>}
KitSubkitFiles == {<<>>, <<"sub.yml">>}
EnvFileLists == {<<>>, <<"e1.yml">>, <<"e1.yml", "site.yml">>, <<"bad env.yml">>}
AllFiles == {"base.yml", "net.yml", "ha.yml", "sub.yml", "e1.yml", "site.yml", "bad env.yml"}

\* Kit::blueprint(features): the files of the kit for the features asked for
Blueprints == [base : KitBaseFiles, features : KitFeatureFiles, subkits : KitSubkitFiles]

\* the feature names that select the feature files of a blueprint
features_of(blueprint) == IF blueprint.features = <<>> THEN <<>> ELSE <<"ha">>

SourceNotFound(file) == [kind |-> "source_not_found", path |-> file]
NoSourceFiles == [kind |-> "no_source_files", path |-> ""]
NoEnvFiles == [kind |-> "no_env_files", path |-> ""]
InvalidEnvName(file) == [kind |-> "invalid_env_name", path |-> file]
BlueprintError == [kind |-> "blueprint", path |-> ""]
NoVaultPrefix == [kind |-> "no_vault_prefix", path |-> ""]
TransformError == [kind |-> "transform", path |-> ""]

\* the steps a fault can be injected into: that step returns Err when reached
PipelineFaults == {"none", "blueprint", "merge", "evaluate", "redact", "vaultify", "entomb"}

\* one entry of the log: a provider step, or a run of the merge engine with
\* the files it was given
Step(name) == [call |-> name, files |-> <<>>]
MergeRun(files) == [call |-> "spruce.merge", files |-> files]

\* path.file_stem()
file_stem(file) ==
    CASE file = "base.yml" -> "base"
      [] file = "net.yml" -> "net"
      [] file = "ha.yml" -> "ha"
      [] file = "sub.yml" -> "sub"
      [] file = "e1.yml" -> "e1"
      [] file = "site.yml" -> "site"
      [] OTHER -> "bad env"

\* EnvName::from_path: the stem, when it is a valid environment name
EnvName_from_path(file) ==
    IF file_stem(file) \in {"bad env"} THEN Err(InvalidEnvName(file))
    ELSE Ok(file_stem(file))

\* the text the merge engine makes of the files, in their order
RECURSIVE spruce_merge(_)
spruce_merge(files) ==
    IF files = <<>> THEN "" ELSE "+" \o Head(files) \o spruce_merge(Tail(files))

\* build_metadata: ManifestMetadata::new, then add_source_file for each file
build_metadata(env_name, kit_version, features, source_files) ==
    [env_name |-> env_name, kit_version |-> kit_version, features |-> features,
     source_files |-> source_files]

UnevaluatedManifest_new(content, metadata) == [content |-> content, metadata |-> metadata]

\* the first file of the list that does not exist, 0 when all do
first_missing(files, existing) ==
    IF \A i \in 1..Len(files) : files[i] \in existing THEN 0
    ELSE CHOOSE i \in 1..Len(files) :
            /\ files[i] \notin existing
            /\ \A j \in 1..(i - 1) : files[j] \in existing

PipelineOutcome(res, lg) == [result |-> res, log |-> lg]

generate_unevaluated_env_first(blueprint, env_files, existing, fault) ==
    IF fault = "blueprint" THEN PipelineOutcome(Err(BlueprintError), <<>>)
    ELSE LET all_files == env_files \o blueprint.base \o blueprint.features \o blueprint.subkits
             missing == first_missing(all_files, existing)
         IN  IF missing # 0 THEN PipelineOutcome(Err(SourceNotFound(all_files[missing])), <<>>)
             ELSE IF all_files = <<>> THEN PipelineOutcome(Err(NoSourceFiles), <<>>)
             ELSE IF fault = "merge"
             THEN PipelineOutcome(Err(MergeEngineFailure), <<MergeRun(all_files)>>)
             ELSE IF env_files = <<>>
             THEN PipelineOutcome(Err(NoEnvFiles), <<MergeRun(all_files)>>)
             ELSE LET env_name == EnvName_from_path(env_files[1])
                  IN  IF env_name.kind # "ok"
                      THEN PipelineOutcome(env_name, <<MergeRun(all_files)>>)
                      ELSE PipelineOutcome(
                               Ok(UnevaluatedManifest_new(spruce_merge(all_files),
                                      build_metadata(env_name.val, "v1",
                                                     features_of(blueprint), all_files))),
                               <<MergeRun(all_files)>>)

generate_unevaluated_merging_unchecked(blueprint, env_files, existing, fault) ==
    IF fault = "blueprint" THEN PipelineOutcome(Err(BlueprintError), <<>>)
    ELSE LET all_files == blueprint.base \o env_files \o blueprint.features \o blueprint.subkits
             missing == first_missing(all_files, existing)
         IN  IF all_files = <<>> THEN PipelineOutcome(Err(NoSourceFiles), <<>>)
             ELSE IF missing # 0
             THEN PipelineOutcome(Err(SourceNotFound(all_files[missing])),
                                  <<MergeRun(all_files)>>)
             ELSE IF fault = "merge"
             THEN PipelineOutcome(Err(MergeEngineFailure), <<MergeRun(all_files)>>)
             ELSE IF env_files = <<>>
             THEN PipelineOutcome(Err(NoEnvFiles), <<MergeRun(all_files)>>)
             ELSE LET env_name == EnvName_from_path(env_files[1])
                  IN  IF env_name.kind # "ok"
                      THEN PipelineOutcome(env_name, <<MergeRun(all_files)>>)
                      ELSE PipelineOutcome(
                               Ok(UnevaluatedManifest_new(spruce_merge(all_files),
                                      build_metadata(env_name.val, "v1",
                                                     features_of(blueprint), all_files))),
                               <<MergeRun(all_files)>>)

\* StandardManifestProvider::generate_unevaluated
generate_unevaluated(blueprint, env_files, existing, fault) ==
    IF fault = "blueprint" THEN PipelineOutcome(Err(BlueprintError), <<>>)
    ELSE LET all_files == blueprint.base \o env_files \o blueprint.features \o blueprint.subkits
             missing == first_missing(all_files, existing)
         IN  IF missing # 0 THEN PipelineOutcome(Err(SourceNotFound(all_files[missing])), <<>>)
             ELSE IF all_files = <<>> THEN PipelineOutcome(Err(NoSourceFiles), <<>>)
             ELSE IF fault = "merge"
             THEN PipelineOutcome(Err(MergeEngineFailure), <<MergeRun(all_files)>>)
             ELSE IF env_files = <<>>
             THEN PipelineOutcome(Err(NoEnvFiles), <<MergeRun(all_files)>>)
             ELSE LET env_name == EnvName_from_path(env_files[1])
                  IN  IF env_name.kind # "ok"
                      THEN PipelineOutcome(env_name, <<MergeRun(all_files)>>)
                      ELSE PipelineOutcome(
                               Ok(UnevaluatedManifest_new(spruce_merge(all_files),
                                      build_metadata(env_name.val, "v1",
                                                     features_of(blueprint), all_files))),
                               <<MergeRun(all_files)>>)


\* StandardManifestProvider::evaluate; pending is what extract_vault_paths
\* finds in the evaluated text
provider_evaluate(unevaluated, pending, fault) ==
    IF fault = "evaluate" THEN PipelineOutcome(Err(MergeEngineFailure), <<Step("evaluate")>>)
    ELSE PipelineOutcome(Ok(PartialManifest_new(spruce_eval(unevaluated.content),
                                                unevaluated.metadata, pending)),
                         <<Step("evaluate")>>)

RedactedManifest_new(content, metadata, secret_paths) ==
    [content |-> content, metadata |-> metadata, secret_paths |-> secret_paths]

\* StandardManifestProvider::redact
provider_redact(manifest, secret_paths, fault) ==
    IF fault = "redact" THEN PipelineOutcome(Err(TransformError), <<Step("redact")>>)
    ELSE PipelineOutcome(Ok(RedactedManifest_new("redact(" \o manifest.content \o ")",
                                                 manifest.metadata, secret_paths)),
                         <<Step("redact")>>)

VaultifiedManifest_new(content, metadata, vault_mappings) ==
    [content |-> content, metadata |-> metadata, vault_mappings |-> vault_mappings]

\* StandardManifestProvider::vaultify; the pending references are store
\* references, none of them a path of the document, so nothing is mapped
provider_vaultify(manifest, vault_prefix, secret_paths, fault) ==
    IF fault = "vaultify" THEN PipelineOutcome(Err(TransformError), <<Step("vaultify")>>)
    ELSE PipelineOutcome(Ok(VaultifiedManifest_new("vaultify(" \o manifest.content \o ")",
                                                   manifest.metadata, <<>>)),
                         <<Step("vaultify")>>)

\* StandardManifestProvider::entomb
provider_entomb(manifest, v, vault_prefix, fault) ==
    PipelineOutcome(entomb(manifest, v, vault_prefix, fault # "entomb"), <<Step("entomb")>>)

PipelineResult(unevaluated, partial, redacted, vaultified, entombed_manifest) ==
    [unevaluated |-> unevaluated, partial |-> partial, redacted |-> redacted,
     vaultified |-> vaultified, entombed |-> entombed_manifest]

PipelineInput(blueprint, env_files, pending, v, vault_prefix, fault) ==
    [blueprint |-> blueprint, env_files |-> env_files, pending |-> pending,
     vault |-> v, vault_prefix |-> vault_prefix, fault |-> fault]

execute_ignoring_failures(in, existing) ==
    LET generated == generate_unevaluated(in.blueprint, in.env_files, existing, "none")
        log1 == <<Step("generate_unevaluated")>> \o generated.log
    IN  IF generated.result.kind # "ok" THEN PipelineOutcome(generated.result, log1)
        ELSE
    LET unevaluated == generated.result.val
        evaluated == provider_evaluate(unevaluated, in.pending, "none")
        log2 == log1 \o evaluated.log
        partial == evaluated.result.val
        secret_paths == partial.pending_secrets
        redacted == provider_redact(partial, secret_paths, "none")
        log3 == log2 \o redacted.log
        vaultified == provider_vaultify(partial, in.vault_prefix.val, secret_paths, "none")
        log4 == log3 \o vaultified.log
        entombing == provider_entomb(partial, in.vault, in.vault_prefix.val, "none")
        log5 == log4 \o entombing.log
    IN  PipelineOutcome(Ok(PipelineResult(unevaluated, partial, redacted.result.val,
                                          vaultified.result.val, entombing.result.val)),
                        log5)

\* ManifestPipeline::execute
execute(in, existing) ==
    LET generated == generate_unevaluated(in.blueprint, in.env_files, existing, in.fault)
        log1 == <<Step("generate_unevaluated")>> \o generated.log
    IN  IF generated.result.kind # "ok" THEN PipelineOutcome(generated.result, log1)
        ELSE
    LET unevaluated == generated.result.val
        evaluated == provider_evaluate(unevaluated, in.pending, in.fault)
        log2 == log1 \o evaluated.log
    IN  IF evaluated.result.kind # "ok" THEN PipelineOutcome(evaluated.result, log2)
        ELSE
    LET partial == evaluated.result.val
        secret_paths == partial.pending_secrets
        redacted == provider_redact(partial, secret_paths, in.fault)
        log3 == log2 \o redacted.log
    IN  IF redacted.result.kind # "ok" THEN PipelineOutcome(redacted.result, log3)
        ELSE
    LET vaultified == provider_vaultify(partial, in.vault_prefix.val, secret_paths, in.fault)
        log4 == log3 \o vaultified.log
    IN  IF vaultified.result.kind # "ok" THEN PipelineOutcome(vaultified.result, log4)
        ELSE
    LET entombing == provider_entomb(partial, in.vault, in.vault_prefix.val, in.fault)
        log5 == log4 \o entombing.log
    IN  IF entombing.result.kind # "ok" THEN PipelineOutcome(entombing.result, log5)
        ELSE PipelineOutcome(Ok(PipelineResult(unevaluated, partial, redacted.result.val,
                                               vaultified.result.val, entombing.result.val)),
                             log5)

\* ManifestBuilder::generate_entombed, through generate_partial and the
\* builder's generate_unevaluated
generate_entombed(in, existing) ==
    IF ~in.vault_prefix.some THEN PipelineOutcome(Err(NoVaultPrefix), <<>>)
    ELSE IF in.env_files = <<>> THEN PipelineOutcome(Err(NoEnvFiles), <<>>)
    ELSE
    LET generated == generate_unevaluated(in.blueprint, in.env_files, existing, in.fault)
        log1 == <<Step("generate_unevaluated")>> \o generated.log
    IN  IF generated.result.kind # "ok" THEN PipelineOutcome(generated.result, log1)
        ELSE
    LET evaluated == provider_evaluate(generated.result.val, in.pending, in.fault)
        log2 == log1 \o evaluated.log
    IN  IF evaluated.result.kind # "ok" THEN PipelineOutcome(evaluated.result, log2)
        ELSE
    LET entombing == provider_entomb(evaluated.result.val, in.vault, in.vault_prefix.val,
                                    in.fault)
    IN  PipelineOutcome(entombing.result, log2 \o entombing.log)

\* the kits, environments and stores the pipeline is run on
PipelineBlueprints ==
    {b \in Blueprints : b.base # <<>> /\ Len(b.base) + Len(b.features) + Len(b.subkits) = 2}
PipelineEnvFiles == {<<>>, <<"e1.yml">>}
PipelineVaults == {v \in Vaults : v[<<"p", "/", "b">>] = VaultReadError}
PipelineSources == {AllFiles, AllFiles \ {"base.yml"}}

InitPipeline ==
    /\ NoPlan
    /\ NoCache
    /\ NoCallers
    /\ NoEntomb
    /\ NoDeploy
    /\ NoTransform
    /\ sources \in PipelineSources
    /\ pop = "none"
    /\ parg = <<>>
    /\ pres = <<>>
    /\ plog = <<>>

PipelineFrame == UNCHANGED <<vars, cacheVars, writeVars, entombVars, deployVars, xformVars>>

\* one run of the full pipeline
Execute ==
    /\ pop = "none"
    /\ \E blueprint \in PipelineBlueprints : \E env_files \in PipelineEnvFiles :
       \E pending \in PendingSecrets : \E v \in PipelineVaults :
       \E vault_prefix \in VaultPrefixes : \E fault \in PipelineFaults :
          LET in == PipelineInput(blueprint, env_files, pending, v, Some(vault_prefix), fault)
              out == execute(in, sources)
          IN  /\ pop' = "execute"
              /\ parg' = in
              /\ pres' = out.result
              /\ plog' = out.log
    /\ UNCHANGED sources
    /\ PipelineFrame

\* one run of the builder up to the entombed manifest
GenerateEntombed ==
    /\ pop = "none"
    /\ \E blueprint \in PipelineBlueprints : \E env_files \in PipelineEnvFiles :
       \E pending \in PendingSecrets : \E v \in PipelineVaults :
       \E vault_prefix \in {None} \cup {Some(p) : p \in VaultPrefixes} :
       \E fault \in PipelineFaults \ {"redact", "vaultify"} :
          LET in == PipelineInput(blueprint, env_files, pending, v, vault_prefix, fault)
              out == generate_entombed(in, sources)
          IN  /\ pop' = "generate_entombed"
              /\ parg' = in
              /\ pres' = out.result
              /\ plog' = out.log
    /\ UNCHANGED sources
    /\ PipelineFrame

NextPipeline ==
    \/ Execute
    \/ GenerateEntombed

SpecPipeline == InitPipeline /\ [][NextPipeline]_allVars


\* the pipeline ran an operation that produces an Entombed manifest
ProducingEntombed == pop \in {"execute", "generate_entombed"}

\* the Entombed manifest of a successful run
EntombedOf == IF pop = "execute" THEN pres.val.entombed ELSE pres.val

\* the reference has the form store_path:key and the store of the run holds
\* the key in the record at prefix + "/" + store_path
ConfirmedInStore(ref) ==
    /\ IsStorePathKey(ref)
    /\ LET path == parg.vault_prefix.val \o <<"/">> \o SubSeq(ref, 1, ColonOf(ref) - 1)
           key == SubSeq(ref, ColonOf(ref) + 1, Len(ref))
       IN  /\ path \in DOMAIN parg.vault
           /\ parg.vault[path].kind = "ok"
           /\ key \in parg.vault[path].keys

\* C21: when at least one pending reference of the Partial cannot be
\* confirmed in the store, execute and generate_entombed do not return a
\* successful result: a successful result omits no pending reference.
C21_UnresolvedAreReported ==
    (ProducingEntombed /\ pres.kind = "ok") =>
        \A i \in 1..Len(parg.pending) : ConfirmedInStore(parg.pending[i])


GenerateInput(blueprint, env_files, fault) ==
    [blueprint |-> blueprint, env_files |-> env_files, fault |-> fault]

InitGenerate ==
    /\ NoPlan
    /\ NoCache
    /\ NoCallers
    /\ NoEntomb
    /\ NoDeploy
    /\ NoTransform
    /\ sources = AllFiles
    /\ pop = "none"
    /\ parg = <<>>
    /\ pres = <<>>
    /\ plog = <<>>

\* one call of the provider's generate_unevaluated
GenerateUnevaluated ==
    /\ pop = "none"
    /\ \E blueprint \in Blueprints : \E env_files \in EnvFileLists :
       \E fault \in {"none", "blueprint", "merge"} :
          LET out == generate_unevaluated(blueprint, env_files, sources, fault)
          IN  /\ pop' = "generate_unevaluated"
              /\ parg' = GenerateInput(blueprint, env_files, fault)
              /\ pres' = out.result
              /\ plog' = out.log
    /\ UNCHANGED sources
    /\ PipelineFrame

\* a file is deleted or restored before the next call; at most one is missing
SourcesChange ==
    /\ \E file \in AllFiles :
          \/ sources = AllFiles /\ sources' = AllFiles \ {file}
          \/ file \notin sources /\ sources' = AllFiles
    /\ pop' = "none"
    /\ parg' = <<>>
    /\ pres' = <<>>
    /\ plog' = <<>>
    /\ PipelineFrame

NextGenerate ==
    \/ GenerateUnevaluated
    \/ SourcesChange

SpecGenerate == InitGenerate /\ [][NextGenerate]_allVars

Generating == pop = "generate_unevaluated"

\* the merge list of the call: base, environment, feature and subkit files
MergeList ==
    parg.blueprint.base \o parg.env_files \o parg.blueprint.features \o parg.blueprint.subkits

\* the runs of the merge engine the call made
MergeRuns == SelectSeq(plog, LAMBDA e : e.call = "spruce.merge")

\* C22: a generate_unevaluated that returns a manifest has invoked the merge
\* engine exactly once, with base ++ environment ++ feature ++ subkit files,
\* each sub-list in its order, and the source file list of the manifest's
\* metadata is exactly that list in that order; no call runs the engine
\* twice or on another list.
C22_MergesOnceInOrder ==
    Generating =>
        /\ Len(MergeRuns) <= 1
        /\ \A i \in 1..Len(MergeRuns) : MergeRuns[i].files = MergeList
        /\ pres.kind = "ok" =>
              /\ Len(MergeRuns) = 1
              /\ pres.val.metadata.source_files = MergeList

\* a manifest came of a kit with base, feature and subkit files and of two
\* environment files
C22_Witness ==
    /\ Generating
    /\ pres.kind = "ok"
    /\ Len(parg.blueprint.base) = 2
    /\ parg.blueprint.features # <<>>
    /\ parg.blueprint.subkits # <<>>
    /\ Len(parg.env_files) = 2
    /\ Len(pres.val.metadata.source_files) = 6

\* a file of the merge list does not exist
SomeFileMissing == \E i \in 1..Len(MergeList) : MergeList[i] \notin sources

\* the merge list was assembled: the kit gave its blueprint
Assembled == parg.fault # "blueprint"

\* C23: when a file of the assembled merge list does not exist,
\* generate_unevaluated fails with a source-not-found error, the merge
\* engine is not invoked and no manifest is returned.
C23_MissingFileStopsBeforeMerge ==
    (Generating /\ Assembled /\ SomeFileMissing) =>
        /\ pres.kind = "err"
        /\ pres.err.kind = "source_not_found"
        /\ pres.err.path \notin sources
        /\ MergeRuns = <<>>

\* the last file of a list of several is the missing one
C23_Witness ==
    /\ Generating
    /\ Assembled
    /\ Len(MergeList) >= 3
    /\ MergeList[Len(MergeList)] \notin sources
    /\ pres.kind = "err"
    /\ plog = <<>>


Executing == pop = "execute"

\* the provider steps of the run, in the order they were invoked
StepsInvoked ==
    LET steps == SelectSeq(plog, LAMBDA e : e.call # "spruce.merge")
    IN  [i \in 1..Len(steps) |-> steps[i].call]

PipelineOrder == <<"generate_unevaluated", "evaluate", "redact", "vaultify", "entomb">>

\* whether the i-th step of the order returns an error on the run's input
StepFails(i) ==
    CASE i = 1 -> \/ parg.fault \in {"blueprint", "merge"}
                  \/ SomeFileMissing
                  \/ parg.env_files = <<>>
      [] OTHER -> parg.fault = PipelineOrder[i]

\* the number of steps up to and including the first that fails
StepsExpected ==
    IF \E i \in 1..5 : StepFails(i)
    THEN CHOOSE i \in 1..5 : StepFails(i) /\ \A j \in 1..(i - 1) : ~StepFails(j)
    ELSE 5

\* C24: execute invokes generate_unevaluated, evaluate, redact, vaultify and
\* entomb in this order, each at most once; when a step fails no later step
\* is invoked and no PipelineResult is returned; on success the redacted,
\* vaultified and entombed artifacts derive from the one Partial and carry
\* its metadata unchanged.
C24_StepsInOrderStopAtFailure ==
    Executing =>
        /\ StepsInvoked = SubSeq(PipelineOrder, 1, StepsExpected)
        /\ (\E i \in 1..5 : StepFails(i)) <=> pres.kind = "err"
        /\ pres.kind = "ok" =>
              LET partial == pres.val.partial
              IN  /\ partial.metadata = pres.val.unevaluated.metadata
                  /\ partial.content = spruce_eval(pres.val.unevaluated.content)
                  /\ pres.val.redacted.metadata = partial.metadata
                  /\ pres.val.redacted.content = "redact(" \o partial.content \o ")"
                  /\ pres.val.redacted.secret_paths = partial.pending_secrets
                  /\ pres.val.vaultified.metadata = partial.metadata
                  /\ pres.val.vaultified.content = "vaultify(" \o partial.content \o ")"
                  /\ pres.val.entombed.metadata = partial.metadata
                  /\ pres.val.entombed.content = spruce_eval(partial.content)
                  /\ Range(pres.val.entombed.entombed_secrets)
                        \subseteq Range(partial.pending_secrets)

\* vaultify failed after three steps had succeeded: entomb was not invoked
C24_Witness ==
    /\ Executing
    /\ parg.fault = "vaultify"
    /\ pres.kind = "err"
    /\ StepsInvoked = <<"generate_unevaluated", "evaluate", "redact", "vaultify">>


(* ---------------------------------------------------------------------- *)
(* BoshDeployer::deploy (genesis-env/src/deployment.rs)                    *)
(* ---------------------------------------------------------------------- *)

MaxDeploys == 2      \* deployments recorded of one environment

\* the environment: its metadata in memory and the copy saved in env.yml
Environment(deployment_count, deployed, saved_count) ==
    [deployment_count |-> deployment_count, deployed |-> deployed,
     saved_count |-> saved_count]

\* how the collaborators of one deploy answer
DeployInput(env, dry_run, secrets_ok, manifest_ok, director_ok, exodus_ok, save_ok) ==
    [env |-> env, dry_run |-> dry_run, secrets_ok |-> secrets_ok,
     manifest_ok |-> manifest_ok, director_ok |-> director_ok,
     exodus_ok |-> exodus_ok, save_ok |-> save_ok]

DeployError(step) == [kind |-> step, path |-> ""]

\* DeploymentRecord after start and succeed
DeploymentRecord(status, has_task) == [status |-> status, bosh_task_id |-> has_task]

DeployOutcome(env, res, lg) == [env |-> env, result |-> res, log |-> lg]

\* Environment::record_deployment
record_deployment(env) ==
    [env EXCEPT !.deployed = TRUE, !.deployment_count = env.deployment_count + 1]

\* Environment::save
save(env) == [env EXCEPT !.saved_count = env.deployment_count]

deploy_ignoring_dry_run(in) ==
    IF ~in.secrets_ok
    THEN DeployOutcome(in.env, Err(DeployError("generate_secrets")), <<"generate_secrets">>)
    ELSE IF ~in.manifest_ok
    THEN DeployOutcome(in.env, Err(DeployError("generate_manifest")),
                       <<"generate_secrets", "generate_manifest">>)
    ELSE IF ~in.director_ok
    THEN DeployOutcome(in.env, Err(DeployError("bosh")),
                       <<"generate_secrets", "generate_manifest", "bosh.deploy">>)
    ELSE IF ~in.exodus_ok
    THEN DeployOutcome(in.env, Err(DeployError("save_exodus")),
                       <<"generate_secrets", "generate_manifest", "bosh.deploy", "save_exodus">>)
    ELSE IF ~in.save_ok
    THEN DeployOutcome(record_deployment(in.env), Err(DeployError("save")),
                       <<"generate_secrets", "generate_manifest", "bosh.deploy", "save_exodus",
                         "record_deployment", "save">>)
    ELSE DeployOutcome(save(record_deployment(in.env)),
                       Ok(DeploymentRecord("succeeded", TRUE)),
                       <<"generate_secrets", "generate_manifest", "bosh.deploy", "save_exodus",
                         "record_deployment", "save">>)

\* BoshDeployer::deploy
deploy(in) ==
    IF ~in.secrets_ok
    THEN DeployOutcome(in.env, Err(DeployError("generate_secrets")), <<"generate_secrets">>)
    ELSE IF ~in.manifest_ok
    THEN DeployOutcome(in.env, Err(DeployError("generate_manifest")),
                       <<"generate_secrets", "generate_manifest">>)
    ELSE IF in.dry_run
    THEN DeployOutcome(in.env, Ok(DeploymentRecord("succeeded", FALSE)),
                       <<"generate_secrets", "generate_manifest">>)
    ELSE IF ~in.director_ok
    THEN DeployOutcome(in.env, Err(DeployError("bosh")),
                       <<"generate_secrets", "generate_manifest", "bosh.deploy">>)
    ELSE IF ~in.exodus_ok
    THEN DeployOutcome(in.env, Err(DeployError("save_exodus")),
                       <<"generate_secrets", "generate_manifest", "bosh.deploy", "save_exodus">>)
    ELSE IF ~in.save_ok
    THEN DeployOutcome(record_deployment(in.env), Err(DeployError("save")),
                       <<"generate_secrets", "generate_manifest", "bosh.deploy", "save_exodus",
                         "record_deployment", "save">>)
    ELSE DeployOutcome(save(record_deployment(in.env)),
                       Ok(DeploymentRecord("succeeded", TRUE)),
                       <<"generate_secrets", "generate_manifest", "bosh.deploy", "save_exodus",
                         "record_deployment", "save">>)

InitDeploy ==
    /\ NoPlan
    /\ NoCache
    /\ NoCallers
    /\ NoEntomb
    /\ NoPipeline
    /\ NoTransform
    /\ denv = Environment(0, FALSE, 0)
    /\ darg = <<>>
    /\ dres = <<>>
    /\ dlog = <<>>

\* one deploy of the environment
Deploy ==
    /\ denv.deployment_count < MaxDeploys
    /\ \E dry_run \in BOOLEAN : \E secrets_ok \in BOOLEAN : \E manifest_ok \in BOOLEAN :
       \E director_ok \in BOOLEAN : \E exodus_ok \in BOOLEAN : \E save_ok \in BOOLEAN :
          LET in == DeployInput(denv, dry_run, secrets_ok, manifest_ok, director_ok,
                                exodus_ok, save_ok)
              out == deploy(in)
          IN  /\ denv' = out.env
              /\ darg' = in
              /\ dres' = out.result
              /\ dlog' = out.log
    /\ UNCHANGED <<vars, cacheVars, writeVars, entombVars, pipelineVars, xformVars>>

NextDeploy ==
    \/ Deploy

SpecDeploy == InitDeploy /\ [][NextDeploy]_allVars

Deployed == darg # <<>>

\* the places of a call in the log of the deploy
Calls(name) == {i \in 1..Len(dlog) : dlog[i] = name}

DirectorCalled == Calls("bosh.deploy") # {}

\* C25: the director's deploy call is issued only after secret generation
\* and then the generation of the entombed manifest have both succeeded, in
\* that order; when either fails or dry_run is set the director is never
\* called; deployment_count and the saved env.yml change only after a
\* successful director call.
C25_DirectorAfterSecretsAndManifest ==
    Deployed =>
        /\ DirectorCalled =>
              /\ darg.secrets_ok /\ darg.manifest_ok /\ ~darg.dry_run
              /\ \A d \in Calls("bosh.deploy") :
                    /\ d = 3
                    /\ dlog[1] = "generate_secrets"
                    /\ dlog[2] = "generate_manifest"
        /\ Cardinality(Calls("bosh.deploy")) <= 1
        /\ (~darg.secrets_ok \/ ~darg.manifest_ok \/ darg.dry_run) => ~DirectorCalled
        /\ ~darg.secrets_ok => Calls("generate_manifest") = {}
        /\ denv # darg.env => DirectorCalled /\ darg.director_ok
        /\ \A i \in Calls("record_deployment") \cup Calls("save") :
              /\ darg.director_ok
              /\ \E d \in Calls("bosh.deploy") : d < i

\* a dry run after a recorded deployment: secrets and manifest were
\* generated, the director was not called and the metadata is as before
C25_Witness ==
    /\ Deployed
    /\ darg.dry_run
    /\ darg.secrets_ok
    /\ darg.manifest_ok
    /\ dres.kind = "ok"
    /\ denv.deployment_count = 1
    /\ denv = darg.env
    /\ ~DirectorCalled


(* ---------------------------------------------------------------------- *)
(* The path algebra (genesis-manifest/src/transform.rs)                    *)
(* ---------------------------------------------------------------------- *)

MaxPaths == 2      \* paths given to one transformer call

\* serde_json::Value: strings are sequences of characters, a map is a
\* function of its keys
Null == [t |-> "null", m |-> <<>>, a |-> <<>>, s |-> <<>>]
String(s) == [t |-> "string", m |-> <<>>, a |-> <<>>, s |-> s]
Array(a) == [t |-> "array", m |-> <<>>, a |-> a, s |-> <<>>]
Object(m) == [t |-> "object", m |-> m, a |-> <<>>, s |-> <<>>]

\* serde_json::Map::new, insert, remove
NewMap == <<>>
map_insert(m, k, v) == [x \in DOMAIN m \cup {k} |-> IF x = k THEN v ELSE m[x]]
map_remove(m, k) == [x \in DOMAIN m \ {k} |-> m[x]]

\* the documents: objects of the keys a and b whose values are scalars,
\* objects or arrays, and roots that are no object
Leaves == {String(<<"x">>), Null}
ObjectsOver(keys, vals) == {Object(m) : m \in UNION {[ks -> vals] : ks \in SUBSET keys}}
ArraysOver(vals) == {Array(<<>>)} \cup {Array(<<v>>) : v \in vals}
Level1 ==
    Leaves \cup ObjectsOver({<<"b">>}, Leaves)
           \cup ArraysOver(Leaves \cup {Object([k \in {<<"b">>} |-> String(<<"x">>)])})
Values == ObjectsOver({<<"a">>, <<"b">>}, Level1) \cup {String(<<"x">>), Array(<<>>)}

\* the text of a document: what serde_yaml reads it as, or text it cannot read
Yaml(v) == [wellformed |-> TRUE, value |-> v]
MalformedYaml == [wellformed |-> FALSE, value |-> Null]
Documents == {Yaml(v) : v \in Values}

ManifestError(msg) == [kind |-> "manifest", path |-> msg]

\* serde_yaml::from_str and serde_yaml::to_string
serde_yaml_from_str(yaml) ==
    IF yaml.wellformed THEN Ok(yaml.value) ELSE Err(ManifestError("Failed to parse YAML"))
serde_yaml_to_string(v) == Yaml(v)

\* the paths given: of keys, through an array by index, in the bracket
\* notation, through a scalar
PathStrings ==
    {<<"a">>, <<"b">>, <<"a", ".", "b">>, <<"a", ".", "0">>, <<"a", "[", "0", "]">>,
     <<"a", ".", "0", ".", "b">>}
PathLists == UNION {[1..n -> PathStrings] : n \in 0..MaxPaths}

\* path.split('.')
RECURSIVE split_dot(_)
split_dot(s) ==
    IF \A i \in 1..Len(s) : s[i] # "." THEN <<s>>
    ELSE LET i == CHOOSE k \in 1..Len(s) : s[k] = "." /\ \A j \in 1..(k - 1) : s[j] # "."
         IN  <<SubSeq(s, 1, i - 1)>> \o split_dot(SubSeq(s, i + 1, Len(s)))

Digits == <<"0", "1", "2", "3", "4", "5", "6", "7", "8", "9">>
DigitOf(c) == (CHOOSE i \in 1..10 : Digits[i] = c) - 1

\* part.parse::<usize>()
RECURSIVE parse_usize(_)
parse_usize(part) ==
    IF part = <<>> \/ \E i \in 1..Len(part) : part[i] \notin Range(Digits) THEN None
    ELSE IF Len(part) = 1 THEN Some(DigitOf(part[1]))
    ELSE Some(10 * parse_usize(SubSeq(part, 1, Len(part) - 1)).val
              + DigitOf(part[Len(part)]))

\* the text format! makes of an index
RECURSIVE usize_to_string(_)
usize_to_string(i) ==
    IF i < 10 THEN <<Digits[i + 1]>>
    ELSE usize_to_string(i \div 10) \o <<Digits[(i % 10) + 1]>>

\* the loop of get_path over the parts
RECURSIVE get_parts(_, _)
get_parts(current, parts) ==
    IF parts = <<>> THEN Some(current)
    ELSE CASE current.t = "object" ->
                 IF Head(parts) \in DOMAIN current.m
                 THEN get_parts(current.m[Head(parts)], Tail(parts))
                 ELSE None
           [] current.t = "array" ->
                 LET index == parse_usize(Head(parts))
                 IN  IF index.some /\ index.val < Len(current.a)
                     THEN get_parts(current.a[index.val + 1], Tail(parts))
                     ELSE None
           [] OTHER -> None

get_path_by_first_key(v, path) ==
    get_parts(v, <<Head(split_dot(path))>>)

\* ManifestTransformer::get_path
get_path(v, path) == get_parts(v, split_dot(path))

\* ManifestTransformer::path_exists
path_exists(v, path) == get_path(v, path).some

\* the loop of set_path over the parts
RECURSIVE set_parts(_, _, _, _)
set_parts(current, parts, new_value, whole) ==
    IF Len(parts) = 1
    THEN IF current.t = "object"
         THEN Ok(Object(map_insert(current.m, parts[1], new_value)))
         ELSE IF whole THEN Err(ManifestError("Root value is not an object"))
         ELSE Err(ManifestError("Cannot set value at path"))
    ELSE IF current.t = "object"
         THEN LET next == IF Head(parts) \in DOMAIN current.m
                          THEN current.m[Head(parts)]
                          ELSE Object(NewMap)
                  inner == set_parts(next, Tail(parts), new_value, FALSE)
              IN  IF inner.kind = "ok"
                  THEN Ok(Object(map_insert(current.m, Head(parts), inner.val)))
                  ELSE inner
         ELSE Err(ManifestError("Invalid path"))

\* ManifestTransformer::set_path: the value after the call, or the error
set_path(v, path, new_value) ==
    LET parts == split_dot(path)
    IN  set_parts(v, parts, new_value, Len(parts) = 1)

\* the loop of delete_path over the parts
RECURSIVE delete_parts(_, _)
delete_parts(current, parts) ==
    IF current.t # "object" THEN current
    ELSE IF Len(parts) = 1 THEN Object(map_remove(current.m, parts[1]))
    ELSE IF Head(parts) \in DOMAIN current.m
         THEN Object(map_insert(current.m, Head(parts),
                                delete_parts(current.m[Head(parts)], Tail(parts))))
         ELSE current

\* ManifestTransformer::delete_path: the value after the call
delete_path(v, path) == delete_parts(v, split_dot(path))

\* ManifestTransformer::collect_paths: the paths pushed
RECURSIVE collect_paths(_, _)
collect_paths(v, prefix) ==
    CASE v.t = "object" ->
             UNION {LET path == IF prefix = <<>> THEN key ELSE prefix \o <<".">> \o key
                    IN  {path} \cup collect_paths(v.m[key], path) : key \in DOMAIN v.m}
      [] v.t = "array" ->
             UNION {LET path == prefix \o <<"[">> \o usize_to_string(i - 1) \o <<"]">>
                    IN  {path} \cup collect_paths(v.a[i], path) : i \in 1..Len(v.a)}
      [] OTHER -> {}

\* ManifestTransformer::extract_all_paths
extract_all_paths(yaml) ==
    LET parsed == serde_yaml_from_str(yaml)
    IN  IF parsed.kind # "ok" THEN parsed ELSE Ok(collect_paths(parsed.val, <<>>))

\* the loop of cherry_pick over the paths
RECURSIVE cherry_pick_paths(_, _, _)
cherry_pick_paths(parsed, picked, paths) ==
    IF paths = <<>> THEN Ok(picked)
    ELSE LET found == get_path(parsed, Head(paths))
         IN  IF found.some
             THEN LET set == set_path(picked, Head(paths), found.val)
                  IN  IF set.kind = "ok" THEN cherry_pick_paths(parsed, set.val, Tail(paths))
                      ELSE set
             ELSE cherry_pick_paths(parsed, picked, Tail(paths))

\* ManifestTransformer::cherry_pick
cherry_pick(yaml, paths) ==
    IF paths = <<>> THEN Ok(yaml)
    ELSE LET parsed == serde_yaml_from_str(yaml)
         IN  IF parsed.kind # "ok" THEN parsed
             ELSE LET picked == cherry_pick_paths(parsed.val, Object(NewMap), paths)
                  IN  IF picked.kind = "ok" THEN Ok(serde_yaml_to_string(picked.val))
                      ELSE picked

\* the loop of prune over the paths
RECURSIVE prune_paths(_, _)
prune_paths(parsed, paths) ==
    IF paths = <<>> THEN parsed
    ELSE prune_paths(delete_path(parsed, Head(paths)), Tail(paths))

\* ManifestTransformer::prune
prune(yaml, paths) ==
    IF paths = <<>> THEN Ok(yaml)
    ELSE LET parsed == serde_yaml_from_str(yaml)
         IN  IF parsed.kind # "ok" THEN parsed
             ELSE Ok(serde_yaml_to_string(prune_paths(parsed.val, paths)))

RECURSIVE redact_paths_appending(_, _)
redact_paths_appending(parsed, secret_paths) ==
    IF secret_paths = <<>> THEN Ok(parsed)
    ELSE LET found == get_path(parsed, Head(secret_paths))
         IN  IF found.some
             THEN LET set == set_path(parsed, Head(secret_paths),
                                      String(found.val.s \o <<"REDACTED">>))
                  IN  IF set.kind = "ok"
                      THEN redact_paths_appending(set.val, Tail(secret_paths))
                      ELSE set
             ELSE redact_paths_appending(parsed, Tail(secret_paths))

\* the loop of redact over the paths
RECURSIVE redact_paths(_, _)
redact_paths(parsed, secret_paths) ==
    IF secret_paths = <<>> THEN Ok(parsed)
    ELSE IF path_exists(parsed, Head(secret_paths))
         THEN LET set == set_path(parsed, Head(secret_paths), String(<<"REDACTED">>))
              IN  IF set.kind = "ok" THEN redact_paths(set.val, Tail(secret_paths))
                  ELSE set
         ELSE redact_paths(parsed, Tail(secret_paths))

\* ManifestTransformer::redact
redact(yaml, secret_paths) ==
    LET parsed == serde_yaml_from_str(yaml)
    IN  IF parsed.kind # "ok" THEN parsed
        ELSE LET redacted == redact_paths(parsed.val, secret_paths)
             IN  IF redacted.kind = "ok" THEN Ok(serde_yaml_to_string(redacted.val))
                 ELSE redacted

\* path.replace('.', "/")
replace_dots(path) == [i \in 1..Len(path) |-> IF path[i] = "." THEN "/" ELSE path[i]]

\* the loop of vaultify over the paths: the value and the mappings
RECURSIVE vaultify_paths(_, _, _, _)
vaultify_paths(parsed, vault_mappings, vault_prefix, secret_paths) ==
    IF secret_paths = <<>> THEN Ok(<<parsed, vault_mappings>>)
    ELSE IF path_exists(parsed, Head(secret_paths))
         THEN LET vault_path == vault_prefix \o <<"/">> \o replace_dots(Head(secret_paths))
                  vault_ref == <<"((vault \"">> \o vault_path \o <<"\"))">>
                  set == set_path(parsed, Head(secret_paths), String(vault_ref))
              IN  IF set.kind = "ok"
                  THEN vaultify_paths(set.val,
                                      map_insert(vault_mappings, Head(secret_paths), vault_path),
                                      vault_prefix, Tail(secret_paths))
                  ELSE set
         ELSE vaultify_paths(parsed, vault_mappings, vault_prefix, Tail(secret_paths))

\* ManifestTransformer::vaultify
vaultify(yaml, vault_prefix, secret_paths) ==
    LET parsed == serde_yaml_from_str(yaml)
    IN  IF parsed.kind # "ok" THEN parsed
        ELSE LET vaultified == vaultify_paths(parsed.val, NewMap, vault_prefix, secret_paths)
             IN  IF vaultified.kind = "ok"
                 THEN Ok(<<serde_yaml_to_string(vaultified.val[1]), vaultified.val[2]>>)
                 ELSE vaultified

RECURSIVE merge_keys_shallow(_, _, _)
merge_keys_shallow(base_map, overlay_map, keys) ==
    IF keys = {} THEN base_map
    ELSE LET key == CHOOSE k \in keys : TRUE
         IN  merge_keys_shallow(map_insert(base_map, key, overlay_map[key]),
                                overlay_map, keys \ {key})

deep_merge_shallow(base, overlay) ==
    IF base.t = "object" /\ overlay.t = "object"
    THEN Object(merge_keys_shallow(base.m, overlay.m, DOMAIN overlay.m))
    ELSE overlay

\* ManifestTransformer::deep_merge, with its loop over the overlay's keys
RECURSIVE deep_merge(_, _)
RECURSIVE merge_keys(_, _, _)
merge_keys(base_map, overlay_map, keys) ==
    IF keys = {} THEN base_map
    ELSE LET key == CHOOSE k \in keys : TRUE
             merged == IF key \in DOMAIN base_map
                       THEN deep_merge(base_map[key], overlay_map[key])
                       ELSE overlay_map[key]
         IN  merge_keys(map_insert(base_map, key, merged), overlay_map, keys \ {key})

deep_merge_appending_arrays(base, overlay) ==
    IF base.t = "object" /\ overlay.t = "object"
    THEN Object(merge_keys(base.m, overlay.m, DOMAIN overlay.m))
    ELSE IF base.t = "array" /\ overlay.t = "array"
    THEN Array(base.a \o overlay.a)
    ELSE overlay

deep_merge(base, overlay) ==
    IF base.t = "object" /\ overlay.t = "object"
    THEN Object(merge_keys(base.m, overlay.m, DOMAIN overlay.m))
    ELSE overlay

\* ManifestTransformer::merge_two
merge_two(yaml1, yaml2) ==
    LET val1 == serde_yaml_from_str(yaml1)
        val2 == serde_yaml_from_str(yaml2)
    IN  IF val1.kind # "ok" THEN val1
        ELSE IF val2.kind # "ok" THEN val2
        ELSE Ok(serde_yaml_to_string(deep_merge(val1.val, val2.val)))


\* the values set_path is given
NewValues == {String(<<"y">>), Null, Object([k \in {<<"b">>} |-> String(<<"y">>)])}

TransformPrefix == <<"p">>

\* the documents a merge lays over another
Overlays == {Yaml(v) : v \in ObjectsOver({<<"a">>, <<"b">>}, Level1 \ {Array(<<>>)})
                              \cup {Null}}

InitTransform ==
    /\ NoPlan
    /\ NoCache
    /\ NoCallers
    /\ NoEntomb
    /\ NoPipeline
    /\ NoDeploy
    /\ targ = <<>>
    /\ tres = <<>>

TransformFrame == UNCHANGED <<vars, cacheVars, writeVars, entombVars, pipelineVars, deployVars>>

SetPath ==
    /\ targ = <<>>
    /\ \E v \in Values : \E path \in PathStrings : \E new_value \in NewValues :
          /\ targ' = [op |-> "set_path", value |-> v, path |-> path, new_value |-> new_value]
          /\ tres' = set_path(v, path, new_value)
    /\ TransformFrame

CherryPick ==
    /\ targ = <<>>
    /\ \E yaml \in Documents : \E paths \in PathLists :
          /\ targ' = [op |-> "cherry_pick", yaml |-> yaml, paths |-> paths]
          /\ tres' = cherry_pick(yaml, paths)
    /\ TransformFrame

Prune ==
    /\ targ = <<>>
    /\ \E yaml \in Documents : \E paths \in PathLists :
          /\ targ' = [op |-> "prune", yaml |-> yaml, paths |-> paths]
          /\ tres' = prune(yaml, paths)
    /\ TransformFrame

Redact ==
    /\ targ = <<>>
    /\ \E yaml \in Documents \cup {MalformedYaml} : \E paths \in PathLists :
          /\ targ' = [op |-> "redact", yaml |-> yaml, paths |-> paths]
          /\ tres' = redact(yaml, paths)
    /\ TransformFrame

Vaultify ==
    /\ targ = <<>>
    /\ \E yaml \in Documents : \E paths \in PathLists :
          /\ targ' = [op |-> "vaultify", yaml |-> yaml, paths |-> paths]
          /\ tres' = vaultify(yaml, TransformPrefix, paths)
    /\ TransformFrame

MergeTwo ==
    /\ targ = <<>>
    /\ \E yaml1 \in Documents : \E yaml2 \in Overlays :
          /\ targ' = [op |-> "merge_two", yaml |-> yaml1, yaml2 |-> yaml2]
          /\ tres' = merge_two(yaml1, yaml2)
    /\ TransformFrame

ExtractAllPaths ==
    /\ targ = <<>>
    /\ \E yaml \in Documents :
          /\ targ' = [op |-> "extract_all_paths", yaml |-> yaml]
          /\ tres' = extract_all_paths(yaml)
    /\ TransformFrame

\* the first document merged once more with the result of the merge
MergeAgain ==
    /\ targ # <<>>
    /\ targ.op = "merge_two"
    /\ tres.kind = "ok"
    /\ targ' = [op |-> "merge_again", yaml |-> targ.yaml, yaml2 |-> targ.yaml2,
                merged |-> tres.val]
    /\ tres' = merge_two(targ.yaml, tres.val)
    /\ TransformFrame

\* the redacted document redacted once more with the same paths
RedactAgain ==
    /\ targ # <<>>
    /\ targ.op = "redact"
    /\ tres.kind = "ok"
    /\ targ' = [op |-> "redact_again", yaml |-> targ.yaml, paths |-> targ.paths,
                redacted |-> tres.val]
    /\ tres' = redact(tres.val, targ.paths)
    /\ TransformFrame

NextTransform ==
    \/ SetPath
    \/ CherryPick
    \/ Prune
    \/ Redact
    \/ Vaultify
    \/ MergeTwo
    \/ ExtractAllPaths
    \/ MergeAgain
    \/ RedactAgain

SpecTransform == InitTransform /\ [][NextTransform]_allVars

Called(name) == targ # <<>> /\ targ.op = name

\* C26: whenever set of x at p in v succeeds, get at p of the result is x.
C26_GetAfterSet ==
    (Called("set_path") /\ tres.kind = "ok") =>
        get_path(tres.val, targ.path) = Some(targ.new_value)

\* a set two keys deep that made the object in between
C26_Witness ==
    /\ Called("set_path")
    /\ tres.kind = "ok"
    /\ targ.path = <<"a", ".", "0", ".", "b">>
    /\ <<"a">> \notin DOMAIN targ.value.m
    /\ get_path(tres.val, <<"a", ".", "0">>).some


\* the paths a document of this size can resolve: up to three segments
Segments == {<<"a">>, <<"b">>, <<"0">>}
ProbePaths ==
    Segments \cup {p \o <<".">> \o q : p \in Segments, q \in Segments}
             \cup {p \o <<".">> \o q \o <<".">> \o r : p \in Segments, q \in Segments,
                                                         r \in Segments}

\* p is q, or lies above q, or lies below q
IsPrefix(s, t) == Len(s) <= Len(t) /\ SubSeq(t, 1, Len(s)) = s
Related(p, q) ==
    \/ IsPrefix(split_dot(p), split_dot(q))
    \/ IsPrefix(split_dot(q), split_dot(p))

Given == Range(targ.paths)

\* C27: every path that resolves in cherry_pick(v, paths) is one of the
\* given paths, an ancestor of one or a descendant of one, and every given
\* path that resolves in v resolves to the same value in the result; this
\* for every list of paths, the empty list included.
C27_CherryPickKeepsOnlyGiven ==
    (Called("cherry_pick") /\ tres.kind = "ok") =>
        /\ \A p \in ProbePaths :
              get_path(tres.val.value, p).some => \E q \in Given : Related(p, q)
        /\ \A q \in Given :
              get_path(targ.yaml.value, q).some =>
                  get_path(tres.val.value, q) = get_path(targ.yaml.value, q)


\* q is a proper ancestor of p
Above(q, p) == split_dot(q) # split_dot(p) /\ IsPrefix(split_dot(q), split_dot(p))

\* the path is in the document: it resolves, or extract_all_paths lists it
Present(v, p) == get_path(v, p).some \/ p \in collect_paths(v, <<>>)

\* C28: after prune(v, paths) no given path is among extract_all_paths of
\* the result, paths that address array elements included; a path that is
\* no given path and lies neither below nor above one resolves to its
\* original value; pruning paths that are all absent changes nothing.
C28_PruneRemovesGiven ==
    (Called("prune") /\ tres.kind = "ok") =>
        /\ \A q \in Given : q \notin collect_paths(tres.val.value, <<>>)
        /\ \A p \in ProbePaths :
              (\A q \in Given : ~Related(p, q)) =>
                  get_path(tres.val.value, p) = get_path(targ.yaml.value, p)
        /\ (\A q \in Given : ~Present(targ.yaml.value, q)) => tres.val = targ.yaml


\* the operations said never to fail
TotalOperations ==
    {"cherry_pick", "prune", "redact", "vaultify", "merge_two", "extract_all_paths"}

\* C29: cherry_pick, prune, redact, vaultify, merge_two and
\* extract_all_paths return a result, never an error, for every well-formed
\* document and every list of paths, paths that traverse arrays or pass
\* through scalars included.
C29_OnlySetFails ==
    (targ # <<>> /\ targ.op \in TotalOperations /\ targ.yaml.wellformed) => tres.kind = "ok"

\* the reference overlay: of two objects the union of their keys, a key of
\* both merged in turn, a key of one with its value; otherwise b
RECURSIVE Overlay(_, _)
Overlay(a, b) ==
    IF a.t = "object" /\ b.t = "object"
    THEN Object([k \in DOMAIN a.m \cup DOMAIN b.m |->
                    IF k \in DOMAIN a.m /\ k \in DOMAIN b.m THEN Overlay(a.m[k], b.m[k])
                    ELSE IF k \in DOMAIN b.m THEN b.m[k]
                    ELSE a.m[k]])
    ELSE b

\* C30: merge_two(a, b) is the reference recursive overlay of b on a: keys
\* of both objects merged recursively, any other value of b (scalar, array,
\* null, or of another type than a's) replacing a's wholesale, keys only in
\* a kept.
C30_MergeIsOverlay ==
    Called("merge_two") =>
        tres = Ok(Yaml(Overlay(targ.yaml.value, targ.yaml2.value)))

\* both documents have an object at a: b's key was laid into it, a's other
\* key b at the root was kept, and b's null replaced nothing but its own key
C30_Witness ==
    /\ Called("merge_two")
    /\ tres.kind = "ok"
    /\ targ.yaml.value.t = "object"
    /\ targ.yaml2.value.t = "object"
    /\ DOMAIN targ.yaml.value.m = {<<"a">>, <<"b">>}
    /\ DOMAIN targ.yaml2.value.m = {<<"a">>}
    /\ targ.yaml.value.m[<<"a">>] = Object([k \in {<<"b">>} |-> String(<<"x">>)])
    /\ targ.yaml2.value.m[<<"a">>] = Object([k \in {<<"b">>} |-> Null])
    /\ tres.val.value.m[<<"a">>] = Object([k \in {<<"b">>} |-> Null])
    /\ tres.val.value.m[<<"b">>] = targ.yaml.value.m[<<"b">>]


\* C31: merge_two(a, merge_two(a, b)) equals merge_two(a, b): merging a
\* again underneath the merged result changes no key.
C31_MergeAgainChangesNothing ==
    Called("merge_again") => tres = Ok(targ.merged)

\* both documents held keys of their own and an object at a; the second
\* merge returned the first one's result
C31_Witness ==
    /\ Called("merge_again")
    /\ tres.kind = "ok"
    /\ targ.yaml.value.t = "object"
    /\ targ.yaml2.value.t = "object"
    /\ DOMAIN targ.yaml.value.m = {<<"a">>, <<"b">>}
    /\ targ.yaml.value.m[<<"a">>].t = "object"
    /\ <<"a">> \in DOMAIN targ.yaml2.value.m
    /\ targ.yaml2.value.m[<<"a">>].t = "object"
    /\ targ.merged # targ.yaml
    /\ targ.merged # targ.yaml2


Sentinel == String(<<"REDACTED">>)

\* C32: whenever redact succeeds, redacting the result again with the same
\* paths yields the same value; each given path that resolves in the
\* redacted value holds the sentinel "REDACTED", a given path of the
\* document that no longer resolves lies below a given path that holds it,
\* and a path that is no given path and lies neither below nor above one
\* keeps its value.
C32_RedactIsIdempotent ==
    Called("redact_again") =>
        /\ tres = Ok(targ.redacted)
        /\ \A q \in Given :
              /\ get_path(targ.redacted.value, q).some =>
                    get_path(targ.redacted.value, q).val = Sentinel
              /\ (get_path(targ.yaml.value, q).some /\ ~get_path(targ.redacted.value, q).some)
                    => \E r \in Given : Above(r, q) /\ get_path(targ.redacted.value, r) = Some(Sentinel)
        /\ \A p \in ProbePaths :
              (\A q \in Given : ~Related(p, q)) =>
                  get_path(targ.redacted.value, p) = get_path(targ.yaml.value, p)

\* two keys were redacted, one of them two keys deep
C32_Witness ==
    /\ Called("redact_again")
    /\ tres.kind = "ok"
    /\ targ.paths = <<<<"a", ".", "b">>, <<"b">>>>
    /\ get_path(targ.yaml.value, <<"a", ".", "b">>) = Some(String(<<"x">>))
    /\ get_path(targ.yaml.value, <<"b">>).some
    /\ get_path(tres.val.value, <<"a", ".", "b">>) = Some(Sentinel)
    /\ get_path(tres.val.value, <<"b">>) = Some(Sentinel)


\* C39: every path extract_all_paths lists of a document resolves in it
\* under get, paths that address array elements included.
C39_ListedPathsResolve ==
    (Called("extract_all_paths") /\ tres.kind = "ok") =>
        \A p \in tres.val : get_path(targ.yaml.value, p).some


\* StandardManifestProvider::redact on a manifest whose content is a
\* document, with the transformer applied to it
StandardManifestProvider_redact(manifest, secret_paths) ==
    LET redacted_content == redact(manifest.content, secret_paths)
    IN  IF redacted_content.kind # "ok" THEN redacted_content
        ELSE Ok(RedactedManifest_new(redacted_content.val, manifest.metadata, secret_paths))

\* the paths the provider is asked to redact: document paths, or the
\* pending references of the manifest as the pipeline passes them
RedactRequests == PathLists \cup {<<ref>> : ref \in SecretRefs}

ProviderRedact ==
    /\ targ = <<>>
    /\ \E yaml \in Documents : \E paths \in RedactRequests :
          LET manifest == PartialManifest_new(yaml,
                              build_metadata("e1", "v1", <<>>, <<"base.yml", "e1.yml">>),
                              paths)
          IN  /\ targ' = [op |-> "provider_redact", manifest |-> manifest, paths |-> paths]
              /\ tres' = StandardManifestProvider_redact(manifest, paths)
    /\ TransformFrame

NextRedact ==
    \/ ProviderRedact

SpecRedact == InitTransform /\ [][NextRedact]_allVars

\* C40: each path listed in the redacted_paths of a RedactedManifest
\* resolves in its content to the sentinel "REDACTED": the list holds only
\* paths that were redacted, never requested paths that did not resolve.
C40_RedactedPathsWereRedacted ==
    (Called("provider_redact") /\ tres.kind = "ok") =>
        \A q \in Range(tres.val.secret_paths) :
            get_path(tres.val.content.value, q) = Some(Sentinel)


(* ---------------------------------------------------------------------- *)
(* Text functions: Spruce::extract_vault_paths (genesis-manifest/src/      *)
(* spruce.rs) and EnvName::new (genesis-types/src/identifiers.rs)          *)
(* ---------------------------------------------------------------------- *)

MaxNameLen == 3      \* characters of a name given to EnvName::new

\* char::is_whitespace on the characters of the texts here
is_whitespace(c) == c \in {" ", "\n"}

\* str::trim
RECURSIVE trim(_)
trim(s) ==
    IF s = <<>> THEN s
    ELSE IF is_whitespace(Head(s)) THEN trim(Tail(s))
    ELSE IF is_whitespace(s[Len(s)]) THEN trim(SubSeq(s, 1, Len(s) - 1))
    ELSE s

\* \s+ from place i: the last place of the run of white space, i - 1 when
\* there is none
RECURSIVE whitespace_end(_, _)
whitespace_end(text, i) ==
    IF i <= Len(text) /\ is_whitespace(text[i]) THEN whitespace_end(text, i + 1) ELSE i - 1

\* [^\)]+ from place i: the last place of the run without a closing
\* parenthesis, i - 1 when there is none
RECURSIVE capture_end(_, _)
capture_end(text, i) ==
    IF i <= Len(text) /\ text[i] # ")" THEN capture_end(text, i + 1) ELSE i - 1

NoMatch == [matched |-> FALSE, capture |-> <<>>, end |-> 0]

\* a match of \(\(vault\s+([^\)]+)\)\) that starts at i: the keyword, white
\* space, the longest run without a closing parenthesis, and two of them
match_at(text, i) ==
    IF ~(/\ i + 3 <= Len(text)
         /\ text[i] = "(" /\ text[i + 1] = "(" /\ text[i + 2] = "vault"
         /\ is_whitespace(text[i + 3]))
    THEN NoMatch
    ELSE LET ws_end == whitespace_end(text, i + 3)
             cap_end == capture_end(text, i + 3)
         IN  IF ~(/\ cap_end >= i + 4
                  /\ cap_end + 2 <= Len(text)
                  /\ text[cap_end + 1] = ")" /\ text[cap_end + 2] = ")")
             THEN NoMatch
             ELSE [matched |-> TRUE,
                   capture |-> IF ws_end < cap_end THEN SubSeq(text, ws_end + 1, cap_end)
                               ELSE SubSeq(text, cap_end, cap_end),
                   end |-> cap_end + 2]

\* vault_pattern.captures_iter(yaml) from place i on: the captures, trimmed
RECURSIVE captures_from(_, _)
captures_from(text, i) ==
    IF i > Len(text) THEN <<>>
    ELSE LET found == match_at(text, i)
         IN  IF found.matched
             THEN <<trim(found.capture)>> \o captures_from(text, found.end + 1)
             ELSE captures_from(text, i + 1)

\* Spruce::extract_vault_paths
extract_vault_paths(yaml) == Ok(captures_from(yaml, 1))

\* the references operators name, and the ways an operator is written
OperatorRefs == {<<"a", ":", "k">>, <<"b", ":", "k">>, <<"a", ":", "j">>}
OperatorForms == {"quoted", "bare", "padded"}
Operators == [ref : OperatorRefs, form : OperatorForms]
OperatorLists == UNION {[1..n -> Operators] : n \in 0..MaxPending}

\* the text of an operator in a manifest
operator_text(o) ==
    CASE o.form = "quoted" -> <<"(", "(", "vault", " ", "\"">> \o o.ref \o <<"\"", ")", ")">>
      [] o.form = "bare" -> <<"(", "(", "vault", " ">> \o o.ref \o <<")", ")">>
      [] OTHER -> <<"(", "(", "vault", " ", " ">> \o o.ref \o <<" ", ")", ")">>

\* a manifest with one property for each operator
RECURSIVE manifest_text(_)
manifest_text(operators) ==
    IF operators = <<>> THEN <<"m", ":", " ", "(", "x", ")", "\n">>
    ELSE <<"p", ":", " ">> \o operator_text(Head(operators)) \o <<"\n">>
         \o manifest_text(Tail(operators))

ValidationError(name) == [kind |-> "validation", path |-> name]

LowercaseLetters ==
    {"a", "b", "c", "d", "e", "f", "g", "h", "i", "j", "k", "l", "m",
     "n", "o", "p", "q", "r", "s", "t", "u", "v", "w", "x", "y", "z"}

\* char::is_ascii_lowercase, char::is_ascii_digit
is_ascii_lowercase(c) == c \in LowercaseLetters
is_ascii_digit(c) == c \in Range(Digits)

\* EnvName::is_valid
EnvName_is_valid(name) ==
    IF name = <<>> THEN FALSE
    ELSE LET first == Head(name)
             chars_after == Tail(name)
         IN  IF ~(is_ascii_lowercase(first) \/ is_ascii_digit(first)) THEN FALSE
             ELSE \A i \in 1..Len(chars_after) :
                     \/ is_ascii_lowercase(chars_after[i])
                     \/ is_ascii_digit(chars_after[i])
                     \/ chars_after[i] = "-"

\* EnvName::new
EnvName_new(name) ==
    IF ~EnvName_is_valid(name) THEN Err(ValidationError(name)) ELSE Ok(name)

\* the characters names are made of
NameChars == {"a", "1", "-", "A", "_"}
Names == UNION {[1..n -> NameChars] : n \in 0..MaxNameLen}

ExtractVaultPaths ==
    /\ targ = <<>>
    /\ \E operators \in OperatorLists :
          /\ targ' = [op |-> "extract_vault_paths", operators |-> operators,
                      yaml |-> manifest_text(operators)]
          /\ tres' = extract_vault_paths(manifest_text(operators))
    /\ TransformFrame

EnvNameNew ==
    /\ targ = <<>>
    /\ \E name \in Names :
          /\ targ' = [op |-> "EnvName::new", name |-> name]
          /\ tres' = EnvName_new(name)
    /\ TransformFrame

NextText ==
    \/ ExtractVaultPaths
    \/ EnvNameNew

SpecText == InitTransform /\ [][NextText]_allVars

\* every operator of the content is written ((vault "store_path:key"))
AllQuoted == \A i \in 1..Len(targ.operators) : targ.operators[i].form = "quoted"

\* C33: of content whose secret-reference operators are written
\* ((vault "store_path:key")), extract_vault_paths returns one entry for
\* each operator, in their order, each the argument store_path:key without
\* the quotes, so that it splits on ':' into the store path and the key.
C33_EntriesAreTheReferences ==
    (Called("extract_vault_paths") /\ AllQuoted) =>
        /\ tres.kind = "ok"
        /\ tres.val = [i \in 1..Len(targ.operators) |-> targ.operators[i].ref]
        /\ \A i \in 1..Len(tres.val) :
              split(tres.val[i]) =
                  <<SubSeq(targ.operators[i].ref, 1, 1), SubSeq(targ.operators[i].ref, 3, 3)>>

\* C34: EnvName::new accepts a name exactly when it is non-empty, made of
\* lowercase ASCII letters, digits and hyphens only, and neither starts nor
\* ends with a hyphen; every other name is rejected with a validation
\* error.
C34_EnvNameAcceptedIffValid ==
    Called("EnvName::new") =>
        /\ tres.kind = "ok" <=>
              /\ targ.name # <<>>
              /\ \A i \in 1..Len(targ.name) :
                    targ.name[i] \in LowercaseLetters \cup Range(Digits) \cup {"-"}
              /\ targ.name[1] # "-"
              /\ targ.name[Len(targ.name)] # "-"
        /\ tres.kind # "ok" => tres = Err(ValidationError(targ.name))


\* C35: sort_by_dependencies only reorders the plan: when it succeeds the
\* plan holds exactly the descriptors it held before, each once; it
\* completes without panicking on every acyclic, closed plan in every
\* insertion order, and a plan of two or more descriptors without
\* dependencies sorts successfully and keeps its order; when it fails the
\* descriptor list is left unchanged.
C35_SortOnlyReorders ==
    op = "sort_by_dependencies" =>
        /\ result.kind = "ok" => IsPermutation(arg.secrets, secrets)
        /\ (DistinctPaths(arg.secrets) /\ DepsKnown(arg.secrets) /\ ~Cyclic(arg.secrets))
              => result.kind = "ok"
        /\ (/\ Len(arg.secrets) >= 2
            /\ DistinctPaths(arg.secrets)
            /\ \A i \in 1..Len(arg.secrets) : arg.secrets[i].deps = <<>>)
              => result.kind = "ok" /\ secrets = arg.secrets
        /\ result.kind = "err" => secrets = arg.secrets


\* the get evicts: its remove step
Evicting == pc[Reader] = "remove" /\ pc'[Reader] = "idle"

\* every put has completed, and the file holds a whole entry that is not
\* the one the get loaded: a put wrote it after the load
PutSinceLoad ==
    /\ \A w \in Writers : pc[w] = "idle"
    /\ disk.exists
    /\ Whole(disk.bytes)
    /\ disk.bytes # seen.bytes

\* C36: a get that decides to evict an expired or corrupted entry never
\* deletes an entry that a put running at the same time wrote after the get
\* had loaded the old one: when both have completed the put's entry is
\* still there.
C36_EvictionSparesNewerEntry ==
    [][(Evicting /\ PutSinceLoad) => disk' = disk]_allVars


(* ---------------------------------------------------------------------- *)
(* The cached provider against the provider it wraps                       *)
(* ---------------------------------------------------------------------- *)

\* evaluate was called for an input that StandardManifestProvider::evaluate
\* evaluates with success
InnerSucceeds ==
    /\ Evaluating
    /\ carg.inner.val.kind = "ok"

\* C37: for the same Unevaluated input, CachedManifestProvider.evaluate
\* returns the same content as StandardManifestProvider.evaluate: a hit is
\* never served from an earlier evaluation of a different input that shares
\* the environment name.
C37_CachedContentIsInnerContent ==
    InnerSucceeds =>
        /\ cres.kind = "ok"
        /\ cres.val.content = carg.inner.val.val.content


(* ---------------------------------------------------------------------- *)
(* The store paths of the planner and of entomb                            *)
(* (genesis-secrets/src/plan.rs, genesis-manifest/src/provider.rs)         *)
(* ---------------------------------------------------------------------- *)

\* the prefix handed to the planner and to entomb, without and with a
\* trailing slash
StorePrefixes == {<<"p">>, <<"p", "/">>, <<"s", "/", "e">>, <<"s", "/", "e", "/">>}

\* a secret of the plan: Secret::path() and the keys Secret::generate() yields
PlanSecrets == [path : {<<"a">>, <<"b">>}, keys : {{<<"k">>}, {<<"k">>, <<"j">>}}]
PlanSecretLists == UNION {[1..n -> PlanSecrets] : n \in 0..MaxPending}

\* format!("{}{}", self.base_path, secret.path()) over characters
plan_full_path(prefix, path) == prefix \o path

\* store.exists(&full_path) and store.write(&full_path, &value) on a store
\* that answers
store_exists(v, path) == path \in DOMAIN v
store_write(v, path, value) ==
    [q \in DOMAIN v \cup {path} |-> IF q = path THEN value ELSE v[q]]

\* SecretPlan::generate_missing with base_path the prefix: the store it
\* leaves and the paths it generated
RECURSIVE generate_missing_records(_, _, _, _)
generate_missing_records(secs, v, prefix, generated) ==
    IF secs = <<>> THEN [store |-> v, generated |-> generated]
    ELSE LET secret == Head(secs)
             full == plan_full_path(prefix, secret.path)
         IN  IF ~store_exists(v, full)
             THEN generate_missing_records(Tail(secs),
                      store_write(v, full, VaultRecord(secret.keys)), prefix,
                      Append(generated, secret.path))
             ELSE generate_missing_records(Tail(secs), v, prefix, generated)

\* the planner generates the missing secrets of a plan into an empty store
PlanGenerateMissing ==
    /\ targ = <<>>
    /\ \E prefix \in StorePrefixes : \E secs \in PlanSecretLists :
          /\ targ' = [op |-> "generate_missing", prefix |-> prefix, secrets |-> secs]
          /\ tres' = generate_missing_records(secs, <<>>, prefix, <<>>)
    /\ TransformFrame

\* then entomb reads the same store under the same prefix
EntombGenerated ==
    /\ Called("generate_missing")
    /\ \E pending \in PendingSecrets :
          /\ targ' = [op |-> "entomb", prefix |-> targ.prefix, secrets |-> targ.secrets,
                      pending |-> pending, store |-> tres.store,
                      generated |-> tres.generated]
          /\ tres' = entombed(pending, tres.store, targ.prefix)
    /\ TransformFrame

NextStorePaths ==
    \/ PlanGenerateMissing
    \/ EntombGenerated

SpecStorePaths == InitTransform /\ [][NextStorePaths]_allVars

\* the reference names a key of the record the planner wrote for a secret it
\* generated
OfGenerated(ref) ==
    /\ IsStorePathKey(ref)
    /\ \E i \in 1..Len(targ.generated) :
          /\ targ.generated[i] = SubSeq(ref, 1, ColonOf(ref) - 1)
          /\ SubSeq(ref, ColonOf(ref) + 1, Len(ref)) \in
                 targ.store[plan_full_path(targ.prefix, targ.generated[i])].keys

\* C38: under one prefix the planner writes a secret at the store path that
\* entomb reads for a reference to it, so after generate_missing succeeds
\* entomb confirms every reference to a key of a generated secret.
C38_EntombReadsWhatPlannerWrote ==
    Called("entomb") =>
        /\ \A i \in 1..Len(targ.generated) :
              plan_full_path(targ.prefix, targ.generated[i]) =
                  vault_full_path(targ.prefix, targ.generated[i])
        /\ \A i \in 1..Len(targ.pending) :
              OfGenerated(targ.pending[i]) =>
                  \E j \in 1..Len(tres) : tres[j] = targ.pending[i]

====
